---------------------------- MODULE Spec2Model ----------------------------
(***************************************************************************)
(* The agent turn loop of codeline.                                        *)
(*                                                                         *)
(* Two loops drive a conversation with a provider adapter:                 *)
(*   - SimpleAgent.task_loop (src/test_agent.py), the console loop with    *)
(*     modes, human confirmation and completion;                           *)
(*   - Task.task_loop (src/task.py), the websocket server loop with the    *)
(*     abort flag and the event sink.                                      *)
(* A behaviour of Spec runs one of them, named by the variable program.    *)
(*                                                                         *)
(* A string is a sequence of tokens, so that f-strings and joins are       *)
(* concatenations and "begins with" is a prefix test.  In Spec the         *)
(* provider adapter is the environment: per call it yields text            *)
(* fragments, then tool_use fragments whose names are in the adapters'     *)
(* whitelist, and it may raise at any point of the stream.                 *)
(*                                                                         *)
(* A behaviour of ProviderSpec is one call of stream_message looked into,  *)
(* in OpenAIProvider or in ClaudeCodeProvider (src/providers): the deltas  *)
(* or the child's lines are read, the text fragments are yielded, and the  *)
(* tag parser runs over the accumulated text.                              *)
(*                                                                         *)
(* A behaviour of SinkSpec is a Task whose websocket the client may close  *)
(* at any moment.                                                          *)
(*                                                                         *)
(* A behaviour of ServerSpec is the websocket server of src/main.py with   *)
(* the Tasks it creates, whose loops interleave.                           *)
(*                                                                         *)
(* A behaviour of ChildSpec is one call of the subprocess adapter together *)
(* with its child process, whose writes go through bounded pipes.          *)
(***************************************************************************)
EXTENDS Naturals, Sequences, FiniteSets

VARIABLES
    pc,                   \* position of the loop's control
    mode,                 \* SimpleAgent.mode ("ACT" is what Task passes)
    abort,                \* Task.abort
    conversation_history, \* sequence of [role, content]
    user_content,         \* pending user content
    assistant_message,    \* text accumulated in the current iteration
    tool_uses,            \* tool_use chunks collected in the current iteration
    idx,                  \* position of the for loop in tool_uses
    tool_results,         \* tool_result entries of the current iteration
    user_feedback,        \* feedback that ended the batch, None if none
    iteration,            \* SimpleAgent's iteration counter
    calls,                \* stream_message calls started
    dispatched,           \* registry calls made, as Dispatch records
    events,               \* event types sent to the websocket
    nTools,               \* tool_use fragments yielded so far
    nTexts,               \* text fragments yielded so far
    program,              \* the loop that runs: "SimpleAgent" or "Task"
    failures,             \* exceptions raised by stream_message so far
    last_input,           \* what the human typed at the last input()
    iteration_end,        \* conversation_history when the last iteration ended
    call_mode,            \* the mode the last stream_message call was given
    provider,             \* the adapter a stream_message call runs in
    ap,                   \* position of the adapter's control
    nRead,                \* deltas or lines the adapter has read
    partial_data,         \* lines read that did not decode yet
    full_text,            \* text accumulated by the adapter
    yielded,              \* fragments the call has yielded, in order
    pending,              \* tool_use fragments the parser pass has yet to yield
    chunks,               \* values decoded from the child's lines
    returncode,           \* exit status of the child
    error_msg,            \* what the child left on stderr, once read
    line_str,             \* the last line read from the child, stripped
    prompt_len,           \* len(system_prompt) of the call
    temp_file,            \* the temporary prompt file: none, exists, unlinked
    child,                \* the child process: none, running, exited
    environ,              \* os.environ of the caller
    env,                  \* the environment the child was given
    stdout,               \* lines in the child's stdout pipe, not read yet
    stderr,               \* blocks in the child's stderr pipe, not read yet
    todo,                 \* what the child has yet to write, and its status
    tasks,                \* the Task objects the server created, by number
    connections           \* main.py's connections: the websockets that are open

loopVars == <<pc, mode, abort, conversation_history, user_content,
              assistant_message, tool_uses, idx, tool_results, user_feedback,
              iteration, calls, dispatched, events, nTools, nTexts, program,
              failures, last_input, iteration_end, call_mode>>

providerVars == <<provider, ap, nRead, partial_data, full_text, yielded,
                  pending, chunks, returncode, error_msg, line_str,
                  prompt_len, temp_file, child, environ, env, stdout,
                  stderr, todo>>

\* The caller's environment and the child's, its pipes and its script.
pipeVars == <<environ, env, stdout, stderr, todo>>

serverVars == <<tasks, connections>>

vars == <<loopVars, providerVars, serverVars>>

---------------------------------------------------------------------------
(* Bounds of the model.                                                    *)

MaxIter == 2
MaxToolUses == 2
MaxTexts == 1
MaxReads == 3

---------------------------------------------------------------------------
(* Strings of the program, as token sequences.                             *)

\* None and the empty string are both falsy, which is all the loop reads.
None == <<>>

TaskText == "create hello.txt with Hello"
Context == "<environment_details>"
TextChunk == "text"

\* The websocket of the endpoint, which every Task it creates is given.
WebSocket == "websocket"
Feedbacks == {<<"use another file">>}

ValidTools == {"read_file", "write_to_file", "search_files",
               "attempt_completion", "plan_mode_respond",
               "ask_followup_question"}

AgentTools == {"read_file", "write_to_file", "search_files",
               "attempt_completion"}

TaskTools == {"read_file", "write_to_file", "search_files",
              "attempt_completion"}

ImmediateTools == {"attempt_completion", "ask_followup_question",
                   "plan_mode_respond"}

PlanOnlyTools == {"read_file", "search_files", "plan_mode_respond",
                  "ask_followup_question"}

\* ActOnlyTools with write_to_file left out.
ActOnlyToolsWithoutWrite == {"attempt_completion"}

\* ActOnlyTools with attempt_completion left out.
ActOnlyToolsWithoutCompletion == {"write_to_file"}

ActOnlyTools == {"write_to_file", "attempt_completion"}

InitialContent(task) == <<"<task>\n", task, "\n</task>">>

FullUserContent(uc, context) == uc \o <<"\n\n", context>>

AgentNudge ==
    <<"Please use a tool to complete the task, or call attempt_completion when done.">>

TaskNudge ==
    <<"Please use a tool to complete the task, or call attempt_completion.">>

FeedbackBlock(fb) == <<"<feedback>\n">> \o fb \o <<"\n</feedback>">>

ToolId(name) == <<"tool_", name>>

ToolUse(name) == [name |-> name, id |-> ToolId(name)]

ToolResult(id, content) == [tool_use_id |-> id, content |-> content]

RejectionMsg(name) ==
    <<"Error: ", name,
      " is not available in PLAN mode. Use plan_mode_respond to present your plan first.">>

SwitchedMsg == <<"User switched to ACT mode. You can now execute actions.">>

AcknowledgedMsg == <<"Plan acknowledged. Continue in PLAN mode.">>

ToolOutput(name) == <<"output of ", name>>

ErrorMsg(e) == <<"Error: ", e>>

UnknownToolMsg(name) == <<"Unknown tool: ", name>>

ToolException == "missing 1 required positional argument"

ResultEntry(r) == <<"[">> \o r.tool_use_id \o <<"] Result: ">> \o r.content

RECURSIVE JoinResults(_)
JoinResults(rs) ==
    IF rs = <<>> THEN <<>>
    ELSE IF Len(rs) = 1 THEN ResultEntry(rs[1])
    ELSE ResultEntry(rs[1]) \o <<"\n\n">> \o JoinResults(Tail(rs))

Turn(role, content) == [role |-> role, content |-> content]

IsPrefix(p, s) == Len(p) <= Len(s) /\ SubSeq(s, 1, Len(p)) = p

---------------------------------------------------------------------------
(* Both loops start from a freshly constructed object.                     *)

Last(s) == s[Len(s)]

Dispatch(call, pos, name, ok) ==
    [call |-> call, pos |-> pos, name |-> name, ok |-> ok]

Constructed(p, m) ==
    /\ program = p
    /\ pc = "created"
    /\ mode = m
    /\ abort = FALSE
    /\ conversation_history = <<>>
    /\ user_content = <<>>
    /\ assistant_message = <<>>
    /\ tool_uses = <<>>
    /\ idx = 0
    /\ tool_results = <<>>
    /\ user_feedback = None
    /\ iteration = 0
    /\ calls = 0
    /\ dispatched = <<>>
    /\ events = <<>>
    /\ nTools = 0
    /\ nTexts = 0
    /\ failures = 0
    /\ last_input = <<>>
    /\ iteration_end = <<>>
    /\ call_mode = "none"

---------------------------------------------------------------------------
(* SimpleAgent (src/test_agent.py).                                        *)

\* SimpleAgent.__init__.
AgentInit == Constructed("SimpleAgent", "PLAN")

\* Rejected with the unused plan_only_tools list of line 176 enforced in
\* ACT mode.
RejectedPlanOnlyInAct(m, name) ==
    \/ m = "PLAN" /\ name \in ActOnlyTools
    \/ m = "ACT" /\ name \in PlanOnlyTools

\* Lines 176-179: the mode restriction.
Rejected(m, name) == m = "PLAN" /\ name \in ActOnlyTools

\* NeedsConfirmation with read_file run without a prompt.
NeedsConfirmationForWrites(name) ==
    name \notin ImmediateTools \cup {"read_file"}

\* Line 165: the tools that run without the interrupt prompt.
NeedsConfirmation(name) == name \notin ImmediateTools

\* AgentFold with the results of the batch joined after the feedback.
AgentFoldKeepsResults(fb, results, uc) ==
    IF fb # None
    THEN FeedbackBlock(fb)
         \o (IF results # <<>> THEN <<"\n\n">> \o JoinResults(results)
             ELSE <<>>)
    ELSE IF results # <<>> THEN JoinResults(results)
    ELSE uc

\* Lines 255-265: the next user content after the for loop.
AgentFold(fb, results, uc) ==
    IF fb # None THEN FeedbackBlock(fb)
    ELSE IF results # <<>> THEN JoinResults(results)
    ELSE uc

\* SimpleAgent.run: the starting mode is chosen, the task is wrapped.
AgentRun(choice) ==
    /\ program = "SimpleAgent"
    /\ pc = "created"
    /\ last_input' = choice
    /\ mode' = IF choice = <<"2">> THEN "ACT" ELSE "PLAN"
    /\ user_content' = InitialContent(TaskText)
    /\ pc' = "top"
    /\ UNCHANGED <<abort, conversation_history, assistant_message, tool_uses,
                   idx, tool_results, user_feedback, iteration, calls,
                   dispatched, events, nTools, nTexts, program, failures,
                   iteration_end, call_mode, providerVars, serverVars>>

\* Lines 95-124: the user turn is appended and the provider is called.
AgentIterate ==
    /\ program = "SimpleAgent"
    /\ pc = "top"
    /\ iteration < MaxIter
    /\ iteration' = iteration + 1
    /\ conversation_history' =
           Append(conversation_history,
                  Turn("user", FullUserContent(user_content, Context)))
    /\ assistant_message' = <<>>
    /\ tool_uses' = <<>>
    /\ calls' = calls + 1
    /\ call_mode' = mode
    /\ pc' = "streaming"
    /\ UNCHANGED <<mode, abort, user_content, idx, tool_results,
                   user_feedback, dispatched, events, nTools, nTexts,
                   program, failures, last_input, iteration_end,
                   providerVars, serverVars>>

\* Lines 125-129: a text chunk.
AgentStreamText ==
    /\ program = "SimpleAgent"
    /\ pc = "streaming"
    /\ tool_uses = <<>>
    /\ nTexts < MaxTexts
    /\ nTexts' = nTexts + 1
    /\ assistant_message' = Append(assistant_message, TextChunk)
    /\ UNCHANGED <<pc, mode, abort, conversation_history, user_content,
                   tool_uses, idx, tool_results, user_feedback, iteration,
                   calls, dispatched, events, nTools, program, failures,
                   last_input, iteration_end, call_mode, providerVars,
                   serverVars>>

\* AgentToolUse keeping one tool_use per id: a chunk whose id is already in
\* the batch is dropped.
AgentToolUseById(name) ==
    /\ program = "SimpleAgent"
    /\ pc = "streaming"
    /\ nTools < MaxToolUses
    /\ nTools' = nTools + 1
    /\ tool_uses' =
           IF \E i \in DOMAIN tool_uses : tool_uses[i].id = ToolId(name)
           THEN tool_uses
           ELSE Append(tool_uses, ToolUse(name))
    /\ UNCHANGED <<pc, mode, abort, conversation_history, user_content,
                   assistant_message, idx, tool_results, user_feedback,
                   iteration, calls, dispatched, events, nTexts, program,
                   failures, last_input, iteration_end, call_mode,
                   providerVars, serverVars>>

\* Lines 131-132: a tool_use chunk.
AgentToolUse(name) ==
    /\ program = "SimpleAgent"
    /\ pc = "streaming"
    /\ nTools < MaxToolUses
    /\ nTools' = nTools + 1
    /\ tool_uses' = Append(tool_uses, ToolUse(name))
    /\ UNCHANGED <<pc, mode, abort, conversation_history, user_content,
                   assistant_message, idx, tool_results, user_feedback,
                   iteration, calls, dispatched, events, nTexts, program,
                   failures, last_input, iteration_end, call_mode,
                   providerVars, serverVars>>

\* AgentStreamError with `continue` in place of the return at line 138.
AgentStreamErrorRetry ==
    /\ program = "SimpleAgent"
    /\ pc = "streaming"
    /\ failures' = failures + 1
    /\ pc' = "top"
    /\ UNCHANGED <<mode, abort, conversation_history, user_content,
                   assistant_message, tool_uses, idx, tool_results,
                   user_feedback, iteration, calls, dispatched, events,
                   nTools, nTexts, program, last_input, iteration_end,
                   call_mode, providerVars, serverVars>>

\* AgentStreamError with the text received so far recorded as an assistant
\* turn before the return.
AgentStreamErrorRecords ==
    /\ program = "SimpleAgent"
    /\ pc = "streaming"
    /\ failures' = failures + 1
    /\ pc' = "error"
    /\ conversation_history' =
           Append(conversation_history, Turn("assistant", assistant_message))
    /\ UNCHANGED <<mode, abort, user_content, assistant_message, tool_uses,
                   idx, tool_results, user_feedback, iteration, calls,
                   dispatched, events, nTools, nTexts, program, last_input,
                   iteration_end, call_mode, providerVars, serverVars>>

\* Lines 136-138: stream_message raised; the loop returns.
AgentStreamError ==
    /\ program = "SimpleAgent"
    /\ pc = "streaming"
    /\ failures' = failures + 1
    /\ pc' = "error"
    /\ UNCHANGED <<mode, abort, conversation_history, user_content,
                   assistant_message, tool_uses, idx, tool_results,
                   user_feedback, iteration, calls, dispatched, events,
                   nTools, nTexts, program, last_input, iteration_end,
                   call_mode, providerVars, serverVars>>

\* Lines 134-155: the stream ended; the assistant turn is appended.
AgentStreamEnd ==
    /\ program = "SimpleAgent"
    /\ pc = "streaming"
    /\ conversation_history' =
           Append(conversation_history, Turn("assistant", assistant_message))
    /\ IF tool_uses = <<>>
       THEN /\ user_content' = AgentNudge
            /\ pc' = "top"
            /\ iteration_end' = conversation_history'
            /\ UNCHANGED <<tool_results, user_feedback, idx>>
       ELSE /\ tool_results' = <<>>
            /\ user_feedback' = None
            /\ idx' = 1
            /\ pc' = "for"
            /\ UNCHANGED <<user_content, iteration_end>>
    /\ UNCHANGED <<mode, abort, assistant_message, tool_uses, iteration,
                   calls, dispatched, events, nTools, nTexts, program,
                   failures, last_input, call_mode, providerVars, serverVars>>

\* Lines 157-165 and 255-265: the next tool_use, or the end of the batch.
AgentFor ==
    /\ program = "SimpleAgent"
    /\ pc = "for"
    /\ IF idx > Len(tool_uses)
       THEN /\ user_content' =
                   AgentFold(user_feedback, tool_results, user_content)
            /\ pc' = "top"
            /\ iteration_end' = conversation_history
       ELSE /\ pc' = IF NeedsConfirmation(tool_uses[idx].name)
                     THEN "confirm" ELSE "check"
            /\ UNCHANGED <<user_content, iteration_end>>
    /\ UNCHANGED <<mode, abort, conversation_history, assistant_message,
                   tool_uses, idx, tool_results, user_feedback, iteration,
                   calls, dispatched, events, nTools, nTexts, program,
                   failures, last_input, call_mode, providerVars, serverVars>>

\* AgentConfirm without the break at line 173.
AgentConfirmNoBreak(feedback) ==
    /\ program = "SimpleAgent"
    /\ pc = "confirm"
    /\ last_input' = feedback
    /\ user_feedback' = IF feedback # <<>> THEN feedback ELSE user_feedback
    /\ pc' = "check"
    /\ UNCHANGED <<mode, abort, conversation_history, user_content,
                   assistant_message, tool_uses, idx, tool_results,
                   iteration, calls, dispatched, events, nTools, nTexts,
                   program, failures, iteration_end, call_mode,
                   providerVars, serverVars>>

\* Lines 166-173 and 255-265: the human answers the interrupt prompt.
AgentConfirm(feedback) ==
    /\ program = "SimpleAgent"
    /\ pc = "confirm"
    /\ last_input' = feedback
    /\ IF feedback # <<>>
       THEN /\ user_feedback' = feedback
            /\ user_content' =
                   AgentFold(feedback, tool_results, user_content)
            /\ pc' = "top"
            /\ iteration_end' = conversation_history
       ELSE /\ pc' = "check"
            /\ UNCHANGED <<user_feedback, user_content, iteration_end>>
    /\ UNCHANGED <<mode, abort, conversation_history, assistant_message,
                   tool_uses, idx, tool_results, iteration, calls,
                   dispatched, events, nTools, nTexts, program, failures,
                   call_mode, providerVars, serverVars>>

\* Lines 179-187: the tool is not available in PLAN mode.
AgentReject ==
    /\ program = "SimpleAgent"
    /\ pc = "check"
    /\ Rejected(mode, tool_uses[idx].name)
    /\ tool_results' =
           Append(tool_results,
                  ToolResult(tool_uses[idx].id,
                             RejectionMsg(tool_uses[idx].name)))
    /\ idx' = idx + 1
    /\ pc' = "for"
    /\ UNCHANGED <<mode, abort, conversation_history, user_content,
                   assistant_message, tool_uses, user_feedback, iteration,
                   calls, dispatched, events, nTools, nTexts, program,
                   failures, last_input, iteration_end, call_mode,
                   providerVars, serverVars>>

\* Lines 189-194: plan_mode_respond prints the plan and asks for the switch.
AgentPlanRespond ==
    /\ program = "SimpleAgent"
    /\ pc = "check"
    /\ ~Rejected(mode, tool_uses[idx].name)
    /\ tool_uses[idx].name = "plan_mode_respond"
    /\ pc' = "plan_prompt"
    /\ UNCHANGED <<mode, abort, conversation_history, user_content,
                   assistant_message, tool_uses, idx, tool_results,
                   user_feedback, iteration, calls, dispatched, events,
                   nTools, nTexts, program, failures, last_input,
                   iteration_end, call_mode, providerVars, serverVars>>

\* AgentSwitch with the mode set whatever the human entered.
AgentSwitchAlways(switch_input) ==
    /\ program = "SimpleAgent"
    /\ pc = "plan_prompt"
    /\ last_input' = switch_input
    /\ mode' = "ACT"
    /\ tool_results' =
           Append(tool_results,
                  ToolResult(tool_uses[idx].id,
                             IF switch_input = <<"switch">>
                             THEN SwitchedMsg ELSE AcknowledgedMsg))
    /\ idx' = idx + 1
    /\ pc' = "for"
    /\ UNCHANGED <<abort, conversation_history, user_content,
                   assistant_message, tool_uses, user_feedback, iteration,
                   calls, dispatched, events, nTools, nTexts, program,
                   failures, iteration_end, call_mode,
                   providerVars, serverVars>>

\* Lines 195-211: the human answers the switch prompt.
AgentSwitch(switch_input) ==
    /\ program = "SimpleAgent"
    /\ pc = "plan_prompt"
    /\ last_input' = switch_input
    /\ IF switch_input = <<"switch">>
       THEN /\ mode' = "ACT"
            /\ tool_results' =
                   Append(tool_results,
                          ToolResult(tool_uses[idx].id, SwitchedMsg))
       ELSE /\ tool_results' =
                   Append(tool_results,
                          ToolResult(tool_uses[idx].id, AcknowledgedMsg))
            /\ UNCHANGED mode
    /\ idx' = idx + 1
    /\ pc' = "for"
    /\ UNCHANGED <<abort, conversation_history, user_content,
                   assistant_message, tool_uses, user_feedback, iteration,
                   calls, dispatched, events, nTools, nTexts, program,
                   failures, iteration_end, call_mode,
                   providerVars, serverVars>>

\* AgentExecute without the return at line 230: a successful
\* attempt_completion is folded like any other result.
AgentExecuteNoReturn(raises) ==
    /\ program = "SimpleAgent"
    /\ pc = "check"
    /\ ~Rejected(mode, tool_uses[idx].name)
    /\ tool_uses[idx].name # "plan_mode_respond"
    /\ tool_uses[idx].name \in AgentTools
    /\ dispatched' =
           Append(dispatched,
                  Dispatch(calls, idx, tool_uses[idx].name, ~raises))
    /\ tool_results' =
           Append(tool_results,
                  ToolResult(tool_uses[idx].id,
                             IF raises THEN ErrorMsg(ToolException)
                             ELSE ToolOutput(tool_uses[idx].name)))
    /\ idx' = idx + 1
    /\ pc' = "for"
    /\ UNCHANGED <<mode, abort, conversation_history, user_content,
                   assistant_message, tool_uses, user_feedback, iteration,
                   calls, events, nTools, nTexts, program, failures,
                   last_input, iteration_end, call_mode, providerVars,
                   serverVars>>

\* Lines 213-245: a registered tool is called; it returns or raises.
AgentExecute(raises) ==
    /\ program = "SimpleAgent"
    /\ pc = "check"
    /\ ~Rejected(mode, tool_uses[idx].name)
    /\ tool_uses[idx].name # "plan_mode_respond"
    /\ tool_uses[idx].name \in AgentTools
    /\ dispatched' =
           Append(dispatched,
                  Dispatch(calls, idx, tool_uses[idx].name, ~raises))
    /\ IF raises
       THEN /\ tool_results' =
                   Append(tool_results,
                          ToolResult(tool_uses[idx].id,
                                     ErrorMsg(ToolException)))
            /\ idx' = idx + 1
            /\ pc' = "for"
       ELSE IF tool_uses[idx].name = "attempt_completion"
       THEN /\ pc' = "completed"
            /\ UNCHANGED <<tool_results, idx>>
       ELSE /\ tool_results' =
                   Append(tool_results,
                          ToolResult(tool_uses[idx].id,
                                     ToolOutput(tool_uses[idx].name)))
            /\ idx' = idx + 1
            /\ pc' = "for"
    /\ UNCHANGED <<mode, abort, conversation_history, user_content,
                   assistant_message, tool_uses, user_feedback, iteration,
                   calls, events, nTools, nTexts, program, failures,
                   last_input, iteration_end, call_mode, providerVars,
                   serverVars>>

\* AgentUnknown without a result for the unregistered name.
AgentUnknownSkips ==
    /\ program = "SimpleAgent"
    /\ pc = "check"
    /\ ~Rejected(mode, tool_uses[idx].name)
    /\ tool_uses[idx].name # "plan_mode_respond"
    /\ tool_uses[idx].name \notin AgentTools
    /\ idx' = idx + 1
    /\ pc' = "for"
    /\ UNCHANGED <<mode, abort, conversation_history, user_content,
                   assistant_message, tool_uses, tool_results, user_feedback,
                   iteration, calls, dispatched, events, nTools, nTexts,
                   program, failures, last_input, iteration_end, call_mode,
                   providerVars, serverVars>>

\* Lines 246-253: the name is not in self.tools.
AgentUnknown ==
    /\ program = "SimpleAgent"
    /\ pc = "check"
    /\ ~Rejected(mode, tool_uses[idx].name)
    /\ tool_uses[idx].name # "plan_mode_respond"
    /\ tool_uses[idx].name \notin AgentTools
    /\ tool_results' =
           Append(tool_results,
                  ToolResult(tool_uses[idx].id,
                             UnknownToolMsg(tool_uses[idx].name)))
    /\ idx' = idx + 1
    /\ pc' = "for"
    /\ UNCHANGED <<mode, abort, conversation_history, user_content,
                   assistant_message, tool_uses, user_feedback, iteration,
                   calls, dispatched, events, nTools, nTexts, program,
                   failures, last_input, iteration_end, call_mode,
                   providerVars, serverVars>>

AgentNext ==
    \/ \E choice \in {<<"2">>, <<>>} : AgentRun(choice)
    \/ AgentIterate
    \/ AgentStreamText
    \/ \E name \in ValidTools : AgentToolUse(name)
    \/ AgentStreamError
    \/ AgentStreamEnd
    \/ AgentFor
    \/ \E feedback \in {<<>>} \cup Feedbacks : AgentConfirm(feedback)
    \/ AgentReject
    \/ AgentPlanRespond
    \/ \E switch_input \in {<<"switch">>, <<>>} : AgentSwitch(switch_input)
    \/ \E raises \in BOOLEAN : AgentExecute(raises)
    \/ AgentUnknown

---------------------------------------------------------------------------
(* Task (src/task.py).                                                     *)

\* Task.__init__; Task passes no mode, so stream_message's default applies.
TaskInit == Constructed("Task", "ACT")

\* Task.send_to_ui, lines 131-139: the event reaches the websocket if it
\* is open; send_json raises if it is closed and the except clause
\* swallows the exception.
SendToUi(evs, message_type) ==
    IF WebSocket \in connections THEN Append(evs, message_type) ELSE evs

\* TaskFold without the else branch of line 80: no nudge.
TaskFoldJoinOnly(results) == JoinResults(results)

\* Lines 73-82: the next user content.
TaskFold(results) ==
    IF results # <<>> THEN JoinResults(results) ELSE TaskNudge

\* main.py, lines 47-48: the client disconnects while the Task runs; the
\* websocket is closed and leaves connections.
WebSocketDisconnect ==
    /\ program = "Task"
    /\ WebSocket \in connections
    /\ connections' = connections \ {WebSocket}
    /\ UNCHANGED <<loopVars, providerVars, tasks>>

\* Task.start.
TaskStart ==
    /\ program = "Task"
    /\ pc = "created"
    /\ events' = SendToUi(events, "status")
    /\ user_content' = InitialContent(TaskText)
    /\ pc' = "top"
    /\ UNCHANGED <<mode, abort, conversation_history, assistant_message,
                   tool_uses, idx, tool_results, user_feedback, iteration,
                   calls, dispatched, nTools, nTexts, program, failures,
                   last_input, iteration_end, call_mode, providerVars,
                   serverVars>>

\* The abort flag is set from outside the loop.
TaskSetAbort ==
    /\ program = "Task"
    /\ pc \in {"created", "top", "streaming"}
    /\ ~abort
    /\ abort' = TRUE
    /\ UNCHANGED <<pc, mode, conversation_history, user_content,
                   assistant_message, tool_uses, idx, tool_results,
                   user_feedback, iteration, calls, dispatched, events,
                   nTools, nTexts, program, failures, last_input,
                   iteration_end, call_mode, providerVars, serverVars>>

\* Line 37 with the flag set: the loop is left.
TaskAborted ==
    /\ program = "Task"
    /\ pc = "top"
    /\ abort
    /\ pc' = "aborted"
    /\ UNCHANGED <<mode, abort, conversation_history, user_content,
                   assistant_message, tool_uses, idx, tool_results,
                   user_feedback, iteration, calls, dispatched, events,
                   nTools, nTexts, program, failures, last_input,
                   iteration_end, call_mode, providerVars, serverVars>>

\* TaskIterate with `while True` at line 37.
TaskIterateUnguarded ==
    /\ program = "Task"
    /\ pc = "top"
    /\ calls < MaxIter
    /\ conversation_history' =
           Append(conversation_history,
                  Turn("user", FullUserContent(user_content, Context)))
    /\ assistant_message' = <<>>
    /\ tool_results' = <<>>
    /\ calls' = calls + 1
    /\ call_mode' = mode
    /\ pc' = "streaming"
    /\ UNCHANGED <<mode, abort, user_content, tool_uses, idx, user_feedback,
                   iteration, dispatched, events, nTools, nTexts, program,
                   failures, last_input, iteration_end,
                   providerVars, serverVars>>

\* Lines 37-53: the user turn is appended and the provider is called.
TaskIterate ==
    /\ program = "Task"
    /\ pc = "top"
    /\ ~abort
    /\ calls < MaxIter
    /\ conversation_history' =
           Append(conversation_history,
                  Turn("user", FullUserContent(user_content, Context)))
    /\ assistant_message' = <<>>
    /\ tool_results' = <<>>
    /\ calls' = calls + 1
    /\ call_mode' = mode
    /\ pc' = "streaming"
    /\ UNCHANGED <<mode, abort, user_content, tool_uses, idx, user_feedback,
                   iteration, dispatched, events, nTools, nTexts, program,
                   failures, last_input, iteration_end,
                   providerVars, serverVars>>

\* Lines 38-39 and 84-101 of task.py: os.listdir raises in build_context,
\* which has no handler, and the exception leaves task_loop.
TaskContextError ==
    /\ program = "Task"
    /\ pc = "top"
    /\ ~abort
    /\ pc' = "context_error"
    /\ UNCHANGED <<mode, abort, conversation_history, user_content,
                   assistant_message, tool_uses, idx, tool_results,
                   user_feedback, iteration, calls, dispatched, events,
                   nTools, nTexts, program, failures, last_input,
                   iteration_end, call_mode, providerVars, serverVars>>

\* TaskStreamText with a send_to_ui that lets the exception of send_json
\* out: the loop ends on a closed websocket.
TaskStreamTextSendRaises ==
    /\ program = "Task"
    /\ pc = "streaming"
    /\ tool_results = <<>>
    /\ nTexts < MaxTexts
    /\ nTexts' = nTexts + 1
    /\ assistant_message' = Append(assistant_message, TextChunk)
    /\ events' = SendToUi(events, "text")
    /\ pc' = IF WebSocket \in connections THEN pc ELSE "error"
    /\ UNCHANGED <<mode, abort, conversation_history, user_content,
                   tool_uses, idx, tool_results, user_feedback, iteration,
                   calls, dispatched, nTools, program, failures, last_input,
                   iteration_end, call_mode, providerVars, serverVars>>

\* Lines 54-56: a text chunk.
TaskStreamText ==
    /\ program = "Task"
    /\ pc = "streaming"
    /\ tool_results = <<>>
    /\ nTexts < MaxTexts
    /\ nTexts' = nTexts + 1
    /\ assistant_message' = Append(assistant_message, TextChunk)
    /\ events' = SendToUi(events, "text")
    /\ UNCHANGED <<pc, mode, abort, conversation_history, user_content,
                   tool_uses, idx, tool_results, user_feedback, iteration,
                   calls, dispatched, nTools, program, failures, last_input,
                   iteration_end, call_mode, providerVars, serverVars>>

\* TaskExecuteTool without the except clause of line 126.
TaskExecuteToolPropagates(name, raises) ==
    /\ program = "Task"
    /\ pc = "streaming"
    /\ nTools < MaxToolUses
    /\ name \in TaskTools
    /\ nTools' = nTools + 1
    /\ dispatched' =
           Append(dispatched,
                  Dispatch(calls, Len(tool_results) + 1, name, ~raises))
    /\ IF raises
       THEN /\ events' = SendToUi(events, "tool")
            /\ pc' = "error"
            /\ UNCHANGED tool_results
       ELSE /\ events' = SendToUi(SendToUi(events, "tool"), "tool_result")
            /\ tool_results' =
                   Append(tool_results,
                          ToolResult(ToolId(name), ToolOutput(name)))
            /\ UNCHANGED pc
    /\ UNCHANGED <<mode, abort, conversation_history, user_content,
                   assistant_message, tool_uses, idx, user_feedback,
                   iteration, calls, nTexts, program, failures, last_input,
                   iteration_end, call_mode, providerVars, serverVars>>

\* TaskExecuteTool with a return from task_loop after attempt_completion
\* succeeded.
TaskExecuteToolCompletes(name, raises) ==
    /\ program = "Task"
    /\ pc = "streaming"
    /\ nTools < MaxToolUses
    /\ name \in TaskTools
    /\ nTools' = nTools + 1
    /\ dispatched' =
           Append(dispatched,
                  Dispatch(calls, Len(tool_results) + 1, name, ~raises))
    /\ pc' = IF name = "attempt_completion" /\ ~raises THEN "completed"
             ELSE pc
    /\ IF raises
       THEN /\ events' = SendToUi(events, "tool")
            /\ tool_results' =
                   Append(tool_results,
                          ToolResult(ToolId(name), ErrorMsg(ToolException)))
       ELSE /\ events' = SendToUi(SendToUi(events, "tool"), "tool_result")
            /\ tool_results' =
                   Append(tool_results,
                          ToolResult(ToolId(name), ToolOutput(name)))
    /\ UNCHANGED <<mode, abort, conversation_history, user_content,
                   assistant_message, tool_uses, idx, user_feedback,
                   iteration, calls, nTexts, program, failures, last_input,
                   iteration_end, call_mode, providerVars, serverVars>>

\* Lines 58-65 and execute_tool, lines 105-127: a registered tool.
TaskExecuteTool(name, raises) ==
    /\ program = "Task"
    /\ pc = "streaming"
    /\ nTools < MaxToolUses
    /\ name \in TaskTools
    /\ nTools' = nTools + 1
    /\ dispatched' =
           Append(dispatched,
                  Dispatch(calls, Len(tool_results) + 1, name, ~raises))
    /\ IF raises
       THEN /\ events' = SendToUi(events, "tool")
            /\ tool_results' =
                   Append(tool_results,
                          ToolResult(ToolId(name), ErrorMsg(ToolException)))
       ELSE /\ events' = SendToUi(SendToUi(events, "tool"), "tool_result")
            /\ tool_results' =
                   Append(tool_results,
                          ToolResult(ToolId(name), ToolOutput(name)))
    /\ UNCHANGED <<pc, mode, abort, conversation_history, user_content,
                   assistant_message, tool_uses, idx, user_feedback,
                   iteration, calls, nTexts, program, failures, last_input,
                   iteration_end, call_mode, providerVars, serverVars>>

\* Lines 58-65 and execute_tool, lines 105-113 and 128-129: no such tool.
TaskUnknownTool(name) ==
    /\ program = "Task"
    /\ pc = "streaming"
    /\ nTools < MaxToolUses
    /\ name \notin TaskTools
    /\ nTools' = nTools + 1
    /\ events' = SendToUi(events, "tool")
    /\ tool_results' =
           Append(tool_results,
                  ToolResult(ToolId(name), UnknownToolMsg(name)))
    /\ UNCHANGED <<pc, mode, abort, conversation_history, user_content,
                   assistant_message, tool_uses, idx, user_feedback,
                   iteration, calls, dispatched, nTexts, program, failures,
                   last_input, iteration_end, call_mode, providerVars,
                   serverVars>>

\* TaskStreamError with the assistant turn appended on the way out.
TaskStreamErrorRecords ==
    /\ program = "Task"
    /\ pc = "streaming"
    /\ failures' = failures + 1
    /\ conversation_history' =
           Append(conversation_history, Turn("assistant", assistant_message))
    /\ pc' = "error"
    /\ UNCHANGED <<mode, abort, user_content, assistant_message, tool_uses,
                   idx, tool_results, user_feedback, iteration, calls,
                   dispatched, events, nTools, nTexts, program, last_input,
                   iteration_end, call_mode, providerVars, serverVars>>

\* Lines 51-53: stream_message raised; the exception leaves task_loop.
TaskStreamError ==
    /\ program = "Task"
    /\ pc = "streaming"
    /\ failures' = failures + 1
    /\ pc' = "error"
    /\ UNCHANGED <<mode, abort, conversation_history, user_content,
                   assistant_message, tool_uses, idx, tool_results,
                   user_feedback, iteration, calls, dispatched, events,
                   nTools, nTexts, program, last_input, iteration_end,
                   call_mode, providerVars, serverVars>>

\* TaskStreamEnd with the assistant turn appended only when the provider
\* sent text.
TaskStreamEndTextOnly ==
    /\ program = "Task"
    /\ pc = "streaming"
    /\ conversation_history' =
           IF assistant_message # <<>>
           THEN Append(conversation_history,
                       Turn("assistant", assistant_message))
           ELSE conversation_history
    /\ user_content' = TaskFold(tool_results)
    /\ pc' = "top"
    /\ iteration_end' = conversation_history'
    /\ UNCHANGED <<mode, abort, assistant_message, tool_uses, idx,
                   tool_results, user_feedback, iteration, calls, dispatched,
                   events, nTools, nTexts, program, failures, last_input,
                   call_mode, providerVars, serverVars>>

\* Lines 67-82: the assistant turn is appended, the results are folded.
TaskStreamEnd ==
    /\ program = "Task"
    /\ pc = "streaming"
    /\ conversation_history' =
           Append(conversation_history, Turn("assistant", assistant_message))
    /\ user_content' = TaskFold(tool_results)
    /\ pc' = "top"
    /\ iteration_end' = conversation_history'
    /\ UNCHANGED <<mode, abort, assistant_message, tool_uses, idx,
                   tool_results, user_feedback, iteration, calls, dispatched,
                   events, nTools, nTexts, program, failures, last_input,
                   call_mode, providerVars, serverVars>>

TaskNext ==
    \/ TaskStart
    \/ TaskSetAbort
    \/ TaskAborted
    \/ TaskIterate
    \/ TaskContextError
    \/ TaskStreamText
    \/ \E name \in ValidTools, raises \in BOOLEAN : TaskExecuteTool(name, raises)
    \/ \E name \in ValidTools : TaskUnknownTool(name)
    \/ TaskStreamError
    \/ TaskStreamEnd

---------------------------------------------------------------------------
(* The provider adapters (src/providers).                                  *)
(*                                                                         *)
(* The text of the model and the lines of the child process are sequences  *)
(* of tokens [tag, name]: an opening tag <name>, a closing tag </name>,    *)
(* a run of text, and the tokens of JSON (a string literal, a punctuation  *)
(* mark, a bare literal such as true or null).                             *)

Open(n) == [tag |-> "open", name |-> n]
Close(n) == [tag |-> "close", name |-> n]
Txt(s) == [tag |-> "text", name |-> s]
Str(s) == [tag |-> "str", name |-> s]
P(c) == [tag |-> "punct", name |-> c]
Lit(s) == [tag |-> "lit", name |-> s]

\* What str.strip() removes.
Whitespace == {Txt(" "), Txt("\n")}

\* str.strip().
RECURSIVE Strip(_)
Strip(s) ==
    IF s = <<>> THEN s
    ELSE IF s[1] \in Whitespace THEN Strip(Tail(s))
    ELSE IF s[Len(s)] \in Whitespace THEN Strip(SubSeq(s, 1, Len(s) - 1))
    ELSE s

\* The values json.loads returns: a str, a list, a dict (its keys in the
\* order of the text, with their values in items), or a bare literal.
JStr(s) == [k |-> "str", s |-> s, keys |-> <<>>, items |-> <<>>]
JLit(s) == [k |-> "lit", s |-> s, keys |-> <<>>, items |-> <<>>]
JArr(items) == [k |-> "arr", s |-> "", keys |-> <<>>, items |-> items]
JObj(keys, items) == [k |-> "obj", s |-> "", keys |-> keys, items |-> items]

\* Python's None, which is also what json.loads returns for null.
PyNone == JLit("null")

\* json.JSONDecodeError.
JSONDecodeError == [ok |-> FALSE, val |-> PyNone, next |-> 0]

Decoded(val, next) == [ok |-> TRUE, val |-> val, next |-> next]

\* The JSON grammar, read from position i of the tokens t.
RECURSIVE ParseValue(_, _)
RECURSIVE ParseElements(_, _, _)
RECURSIVE ParseMembers(_, _, _, _)
ParseValue(t, i) ==
    IF i > Len(t) THEN JSONDecodeError
    ELSE IF t[i].tag = "str" THEN Decoded(JStr(t[i].name), i + 1)
    ELSE IF t[i].tag = "lit" THEN Decoded(JLit(t[i].name), i + 1)
    ELSE IF t[i] = P("[")
    THEN IF i + 1 <= Len(t) /\ t[i + 1] = P("]")
         THEN Decoded(JArr(<<>>), i + 2)
         ELSE ParseElements(t, i + 1, <<>>)
    ELSE IF t[i] = P("{")
    THEN IF i + 1 <= Len(t) /\ t[i + 1] = P("}")
         THEN Decoded(JObj(<<>>, <<>>), i + 2)
         ELSE ParseMembers(t, i + 1, <<>>, <<>>)
    ELSE JSONDecodeError

ParseElements(t, i, acc) ==
    LET r == ParseValue(t, i) IN
    IF ~r.ok \/ r.next > Len(t) THEN JSONDecodeError
    ELSE IF t[r.next] = P(",")
    THEN ParseElements(t, r.next + 1, Append(acc, r.val))
    ELSE IF t[r.next] = P("]")
    THEN Decoded(JArr(Append(acc, r.val)), r.next + 1)
    ELSE JSONDecodeError

ParseMembers(t, i, keys, items) ==
    IF i + 1 > Len(t) \/ t[i].tag # "str" \/ t[i + 1] # P(":")
    THEN JSONDecodeError
    ELSE LET r == ParseValue(t, i + 2) IN
         IF ~r.ok \/ r.next > Len(t) THEN JSONDecodeError
         ELSE IF t[r.next] = P(",")
         THEN ParseMembers(t, r.next + 1, Append(keys, t[i].name),
                           Append(items, r.val))
         ELSE IF t[r.next] = P("}")
         THEN Decoded(JObj(Append(keys, t[i].name), Append(items, r.val)),
                      r.next + 1)
         ELSE JSONDecodeError

\* json.loads: one value and nothing after it.
JsonLoads(t) ==
    LET r == ParseValue(t, 1) IN
    IF r.ok /\ r.next = Len(t) + 1 THEN r ELSE JSONDecodeError

\* "key in d" and d.get(key, default) for a dict decoded from JSON; of two
\* members with one key json.loads keeps the later.
HasKey(d, key) == \E i \in DOMAIN d.keys : d.keys[i] = key

Get(d, key, default) ==
    IF HasKey(d, key)
    THEN d.items[CHOOSE i \in DOMAIN d.keys :
                     /\ d.keys[i] = key
                     /\ \A j \in DOMAIN d.keys : d.keys[j] = key => j <= i]
    ELSE default

\* Where the lazy group of tool_pattern ends: the first closing tag of
\* name n at or after position j of t, 0 when there is none.
FirstClose(t, n, j) ==
    IF \E k \in j..Len(t) : t[k] = Close(n)
    THEN CHOOSE k \in j..Len(t) :
             /\ t[k] = Close(n)
             /\ \A l \in j..(k - 1) : t[l] # Close(n)
    ELSE 0

\* FindIter with the scan resumed right after the opening tag of a match,
\* so that matches may overlap.
RECURSIVE FindIterOverlapping(_, _)
FindIterOverlapping(t, i) ==
    IF i > Len(t) THEN <<>>
    ELSE IF t[i].tag = "open" /\ FirstClose(t, t[i].name, i + 1) # 0
    THEN LET k == FirstClose(t, t[i].name, i + 1) IN
         <<[name |-> t[i].name, content |-> SubSeq(t, i + 1, k - 1)]>>
             \o FindIterOverlapping(t, i + 1)
    ELSE FindIterOverlapping(t, i + 1)

\* re.finditer(tool_pattern, t, re.DOTALL) from position i on: the
\* leftmost match, then the matches of what follows it; a match is
\* (group 1, group 2).
RECURSIVE FindIter(_, _)
FindIter(t, i) ==
    IF i > Len(t) THEN <<>>
    ELSE IF t[i].tag = "open" /\ FirstClose(t, t[i].name, i + 1) # 0
    THEN LET k == FirstClose(t, t[i].name, i + 1) IN
         <<[name |-> t[i].name, content |-> SubSeq(t, i + 1, k - 1)]>>
             \o FindIter(t, k + 1)
    ELSE FindIter(t, i + 1)

\* The values of the params dict: a str, or the list json.loads returned.
PyStr(text) == [list |-> FALSE, text |-> text, items |-> <<>>]
PyList(items) == [list |-> TRUE, text |-> <<>>, items |-> items]

\* ParamValue with an empty list where json.loads raised.
ParamValueNoFallback(param_name, group) ==
    LET param_value == Strip(group) IN
    IF /\ param_name = "options"
       /\ param_value # <<>>
       /\ param_value[1] = P("[")
    THEN IF JsonLoads(param_value).ok
         THEN PyList(JsonLoads(param_value).val.items)
         ELSE PyList(<<>>)
    ELSE PyStr(param_value)

\* Lines 85-94 of openai_provider.py: the value stored for one parameter,
\* given group 2 of its match.
ParamValue(param_name, group) ==
    LET param_value == Strip(group) IN
    IF /\ param_name = "options"
       /\ param_value # <<>>
       /\ param_value[1] = P("[")
    THEN IF JsonLoads(param_value).ok
         THEN PyList(JsonLoads(param_value).val.items)
         ELSE PyStr(param_value)
    ELSE PyStr(param_value)

\* params[param_name] = value.
Put(params, param_name, value) ==
    [n \in DOMAIN params \cup {param_name} |->
        IF n = param_name THEN value ELSE params[n]]

\* ParseParams that also takes the tags inside a parameter's body as
\* parameters.
RECURSIVE ParseParamsFlattening(_, _)
ParseParamsFlattening(ms, params) ==
    IF ms = <<>> THEN params
    ELSE ParseParamsFlattening(
             FindIter(ms[1].content, 1) \o Tail(ms),
             Put(params, ms[1].name,
                 ParamValue(ms[1].name, ms[1].content)))

\* Lines 81-94: the params dict after the parameter matches ms.
RECURSIVE ParseParams(_, _)
ParseParams(ms, params) ==
    IF ms = <<>> THEN params
    ELSE ParseParams(Tail(ms),
                     Put(params, ms[1].name,
                         ParamValue(ms[1].name, ms[1].content)))

TextFragment(text) == [type |-> "text", text |-> text]

ToolUseFragment(tool_name, params) ==
    [type |-> "tool_use", name |-> tool_name, id |-> ToolId(tool_name),
     input |-> params]

\* Lines 72-101: the tool_use fragments of the matches ms.
RECURSIVE ToolUsesOf(_)
ToolUsesOf(ms) ==
    IF ms = <<>> THEN <<>>
    ELSE (IF ms[1].name \in ValidTools
          THEN <<ToolUseFragment(
                     ms[1].name,
                     ParseParams(FindIter(ms[1].content, 1), <<>>))>>
          ELSE <<>>)
         \o ToolUsesOf(Tail(ms))

\* The tag parser, which both adapters run over the accumulated text.
ParseToolUses(text) == ToolUsesOf(FindIter(text, 1))

\* The pieces of text a model may send: plain text, whole tool blocks,
\* and lone tags that make blocks nest or stay open.
PieceNames == {"x", "read", "read twice", "open read", "open thinking",
               "close thinking", "open write", "close write",
               "ask list", "ask not json", "open path"}

PieceText(piece) ==
    CASE piece = "read" ->
             <<Open("read_file"), Open("path"), Txt(" "), Txt("a.txt"),
               Txt("\n"), Close("path"), Close("read_file")>>
      [] piece = "read twice" ->
             <<Open("read_file"), Open("path"), Txt("a.txt"), Close("path"),
               Open("path"), Txt("b.txt"), Close("path"),
               Close("read_file")>>
      [] piece = "open read" -> <<Open("read_file")>>
      [] piece = "open thinking" -> <<Open("thinking")>>
      [] piece = "close thinking" -> <<Close("thinking")>>
      [] piece = "open write" -> <<Open("write_to_file"), Open("content")>>
      [] piece = "close write" ->
             <<Close("content"), Close("write_to_file")>>
      [] piece = "ask list" ->
             <<Open("ask_followup_question"), Open("options"), Txt(" "),
               P("["), Str("a"), P(","), Str("b"), P("]"),
               Close("options"), Close("ask_followup_question")>>
      [] piece = "ask not json" ->
             <<Open("ask_followup_question"), Open("options"),
               P("["), Txt("not json"), Txt(" "),
               Close("options"), Close("ask_followup_question")>>
      [] piece = "open path" -> <<Open("path")>>
      [] OTHER -> <<Txt(piece)>>

\* The text of a str decoded from the JSON string literal Str(s).
StringText(s) ==
    IF s = "" THEN <<>>
    ELSE IF s \in PieceNames THEN PieceText(s)
    ELSE <<Txt(s)>>

\* The content deltas of the OpenAI stream; an empty delta carries no
\* content.
Deltas == {PieceText(piece) : piece \in PieceNames} \cup {<<>>}

\* The lines of stream-json output.
TextPart(s) ==
    <<P("{"), Str("type"), P(":"), Str("text"), P(","),
      Str("text"), P(":"), Str(s), P("}")>>

ToolUsePart == <<P("{"), Str("type"), P(":"), Str("tool_use"), P("}")>>

AssistantHead ==
    <<P("{"), Str("type"), P(":"), Str("assistant"), P(",")>>

AssistantTail(content) ==
    <<Str("message"), P(":"), P("{"), Str("content"), P(":"), P("[")>>
        \o content \o <<P("]"), P("}"), P("}")>>

AssistantRecord(content) == AssistantHead \o AssistantTail(content)

LinePieces == {"x", "read", "open thinking", "close thinking", "ask list"}

StdoutLines ==
    {AssistantRecord(TextPart(piece)) : piece \in LinePieces}
    \cup {AssistantRecord(TextPart("x") \o <<P(",")>> \o ToolUsePart
                          \o <<P(",")>> \o TextPart("read")),
          <<P("{"), Str("type"), P(":"), Str("result"), P("}")>>,
          <<P("{"), Str("type"), P(":"), Str("assistant"), P(","),
            Str("message"), P(":"), Str("x"), P("}")>>,
          <<Str("x")>>,
          <<Lit("null")>>,
          <<>>,
          AssistantHead,
          AssistantTail(TextPart("read")),
          <<P("{"), Str("partial"), P(":")>>,
          <<Str("ok"), P(":"), Lit("true"), P("}")>>,
          <<P("{"), Str("ok"), P(":"), Lit("true"), P("}"), P("}")>>}

\* What the child leaves on stderr.
StderrOutputs ==
    {<<>>, <<Txt("\n")>>, <<Txt("ENOENT")>>,
     <<Txt("rate limited"), Txt("\n")>>}

\* ParseChunk without lines 223-224: the line is decoded on its own.
ParseChunkLineOnly(data, partial) ==
    LET r == JsonLoads(data) IN
    IF r.ok THEN r.val ELSE PyNone

\* _parse_chunk: the decoded value, None when json.loads raised.
ParseChunk(data, partial) ==
    LET r == JsonLoads(IF partial # <<>> THEN partial \o data ELSE data) IN
    IF r.ok THEN r.val ELSE PyNone

\* Lines 145-149: the text fragments of the content blocks from the i-th
\* on, after the fragments acc; raised when a block has no get() or its
\* text is not a str.
RECURSIVE TextBlocks(_, _, _)
TextBlocks(content, i, acc) ==
    IF i > Len(content) THEN [texts |-> acc, raised |-> FALSE]
    ELSE IF content[i].k # "obj" THEN [texts |-> acc, raised |-> TRUE]
    ELSE IF Get(content[i], "type", PyNone) = JStr("text")
    THEN IF Get(content[i], "text", JStr("")).k = "str"
         THEN TextBlocks(content, i + 1,
                         Append(acc, StringText(
                                    Get(content[i], "text", JStr("")).s)))
         ELSE [texts |-> acc, raised |-> TRUE]
    ELSE TextBlocks(content, i + 1, acc)

\* Lines 136-149: the text fragments one decoded chunk yields.
ChunkTexts(chunk) ==
    IF chunk.k = "str" THEN [texts |-> <<StringText(chunk.s)>>,
                             raised |-> FALSE]
    ELSE IF /\ chunk.k = "obj"
            /\ Get(chunk, "type", PyNone) = JStr("assistant")
            /\ HasKey(chunk, "message")
    THEN LET message == Get(chunk, "message", PyNone)
             content == Get(message, "content", JArr(<<>>))
         IN  IF message.k # "obj" THEN [texts |-> <<>>, raised |-> TRUE]
             ELSE IF content.k = "arr" THEN TextBlocks(content.items, 1, <<>>)
             ELSE IF content.k = "obj"
             THEN [texts |-> <<>>, raised |-> content.keys # <<>>]
             ELSE IF content.k = "str"
             THEN [texts |-> <<>>, raised |-> content.s # ""]
             ELSE [texts |-> <<>>, raised |-> TRUE]
    ELSE [texts |-> <<>>, raised |-> FALSE]

\* The text of a sequence of fragments' texts, concatenated.
RECURSIVE Concat(_)
Concat(texts) ==
    IF texts = <<>> THEN <<>> ELSE texts[1] \o Concat(Tail(texts))

Fragments(texts) == [i \in DOMAIN texts |-> TextFragment(texts[i])]

---------------------------------------------------------------------------
(* One call of stream_message, in either adapter.                          *)

\* Line 16 of claude_code_provider.py.
MAX_SYSTEM_PROMPT_LENGTH == 65536

\* Lengths of the system prompt get_system_prompt may return: the
\* threshold and one character more.
PromptLengths == {MAX_SYSTEM_PROMPT_LENGTH, MAX_SYSTEM_PROMPT_LENGTH + 1}

\* ShouldUseFile with the threshold itself sent to a file.
ShouldUseFileFromThreshold(n) == n >= MAX_SYSTEM_PROMPT_LENGTH

\* Line 55: should_use_file.
ShouldUseFile(n) == n > MAX_SYSTEM_PROMPT_LENGTH

\* Lines 57-69: the prompt is written to a named temporary file that is
\* kept on close, or passed inline.
CreateTempFile(n) == IF ShouldUseFile(n) THEN "exists" ELSE "none"

\* Lines 209-215, the finally block: the file is unlinked if there is one.
Cleanup(file) == IF file = "exists" THEN "unlinked" ELSE file

\* The websocket was accepted (main.py, lines 21-22) and no Task was
\* created.
NoServer ==
    /\ tasks = <<>>
    /\ connections = {WebSocket}

\* The environment variables of the model.
ANTHROPIC_API_KEY == "ANTHROPIC_API_KEY"
EnvNames == {"PATH", ANTHROPIC_API_KEY, "CLAUDE_CODE_MAX_OUTPUT_TOKENS"}

\* The value a variable has in the caller's environment, if it is set.
CallerValue(n) ==
    CASE n = "PATH" -> "/usr/bin"
      [] n = ANTHROPIC_API_KEY -> "sk-caller"
      [] OTHER -> "1000"

\* The caller's environments: PATH is set, the others may be.
CallerEnvironments ==
    {[n \in S \cup {"PATH"} |-> CallerValue(n)] : S \in SUBSET EnvNames}

\* Line 18.
CLAUDE_CODE_MAX_OUTPUT_TOKENS == "32000"

\* del d[key].
Del(d, key) == [n \in DOMAIN d \ {key} |-> d[n]]

\* ChildEnv that leaves the caller's API key in.
ChildEnvKeepsKey(e) ==
    Put(Put(Put(e, "CLAUDE_CODE_MAX_OUTPUT_TOKENS",
                CLAUDE_CODE_MAX_OUTPUT_TOKENS),
            "CLAUDE_CODE_DISABLE_NONESSENTIAL_TRAFFIC", "1"),
        "DISABLE_NON_ESSENTIAL_MODEL_CALLS", "1")

\* Lines 85-93: the child's environment, built on a copy of os.environ e.
ChildEnv(e) ==
    LET copy == e
        capped == Put(copy, "CLAUDE_CODE_MAX_OUTPUT_TOKENS",
                      CLAUDE_CODE_MAX_OUTPUT_TOKENS)
        quiet == Put(capped, "CLAUDE_CODE_DISABLE_NONESSENTIAL_TRAFFIC", "1")
        frugal == Put(quiet, "DISABLE_NON_ESSENTIAL_MODEL_CALLS", "1")
    IN  IF ANTHROPIC_API_KEY \in DOMAIN frugal
        THEN Del(frugal, ANTHROPIC_API_KEY)
        ELSE frugal

\* No environment was built yet.
NoEnv == <<>>

\* What a child that has nothing to write and exits with status 0 has yet
\* to do.
NoScript == [out |-> 0, err |-> 0, status |-> 0]

\* The pipes of the child are not looked into: the caller has a plain
\* environment and the child's output arrives as the lines read.
NoPipes ==
    /\ environ = [n \in {"PATH"} |-> CallerValue(n)]
    /\ todo = NoScript

\* The adapter p at position a, with nothing read and nothing yielded,
\* no environment built and nothing in the pipes.
Called(p, a) ==
    /\ provider = p
    /\ ap = a
    /\ nRead = 0
    /\ partial_data = <<>>
    /\ full_text = <<>>
    /\ yielded = <<>>
    /\ pending = <<>>
    /\ chunks = <<>>
    /\ returncode = 0
    /\ error_msg = <<>>
    /\ line_str = <<>>
    /\ temp_file = "none"
    /\ child = "none"
    /\ env = NoEnv
    /\ stdout = <<>>
    /\ stderr = 0

\* AIClient.stream_message hands the call to the configured provider.
ProviderInit ==
    /\ Constructed("AIClient", "ACT")
    /\ \E p \in {"openai", "claude-code"} : Called(p, "called")
    /\ prompt_len \in PromptLengths
    /\ NoPipes
    /\ NoServer

\* Lines 41-56 of openai_provider.py: the completion stream is created.
OpenAICreate ==
    /\ provider = "openai"
    /\ ap = "called"
    /\ ap' = "streaming"
    /\ UNCHANGED <<loopVars, serverVars, pipeVars, prompt_len, temp_file, child,
                   provider, nRead, partial_data, full_text,
                   yielded, pending, chunks, returncode, error_msg, line_str>>

\* OpenAIDelta with the parser run on every chunk as it arrives.
OpenAIDeltaEager(content) ==
    /\ provider = "openai"
    /\ ap = "streaming"
    /\ nRead < MaxReads
    /\ nRead' = nRead + 1
    /\ IF content # <<>>
       THEN /\ full_text' = full_text \o content
            /\ yielded' = Append(yielded, TextFragment(content))
                              \o ParseToolUses(content)
       ELSE UNCHANGED <<full_text, yielded>>
    /\ UNCHANGED <<loopVars, serverVars, pipeVars, prompt_len, temp_file, child,
                   provider, ap, partial_data, pending, chunks,
                   returncode, error_msg, line_str>>

\* Lines 57-61: one chunk of the stream.
OpenAIDelta(content) ==
    /\ provider = "openai"
    /\ ap = "streaming"
    /\ nRead < MaxReads
    /\ nRead' = nRead + 1
    /\ IF content # <<>>
       THEN /\ full_text' = full_text \o content
            /\ yielded' = Append(yielded, TextFragment(content))
       ELSE UNCHANGED <<full_text, yielded>>
    /\ UNCHANGED <<loopVars, serverVars, pipeVars, prompt_len, temp_file, child,
                   provider, ap, partial_data, pending, chunks,
                   returncode, error_msg, line_str>>

\* Lines 49 and 57: the request or the stream raises.
OpenAIError ==
    /\ provider = "openai"
    /\ ap \in {"called", "streaming"}
    /\ ap' = "raised"
    /\ UNCHANGED <<loopVars, serverVars, pipeVars, prompt_len, temp_file, child,
                   provider, nRead, partial_data, full_text,
                   yielded, pending, chunks, returncode, error_msg, line_str>>

\* Lines 63-72: the stream is over, the parser pass starts.
OpenAIStreamEnd ==
    /\ provider = "openai"
    /\ ap = "streaming"
    /\ pending' = ParseToolUses(full_text)
    /\ ap' = "parsing"
    /\ UNCHANGED <<loopVars, serverVars, pipeVars, prompt_len, temp_file, child,
                   provider, nRead, partial_data, full_text,
                   yielded, chunks, returncode, error_msg, line_str>>

\* Lines 53-113 of claude_code_provider.py: the prompt goes to a temporary
\* file if it is long, the child's environment is built, the child is
\* spawned and given the messages.
ClaudeSpawn ==
    /\ provider = "claude-code"
    /\ ap = "called"
    /\ partial_data' = <<>>
    /\ full_text' = <<>>
    /\ ap' = "reading"
    /\ temp_file' = CreateTempFile(prompt_len)
    /\ child' = "running"
    /\ env' = ChildEnv(environ)
    /\ UNCHANGED <<loopVars, serverVars, environ, stdout, stderr, todo,
                   prompt_len, provider, nRead, yielded, pending, chunks,
                   returncode, error_msg, line_str>>

\* Lines 53-96 and 209-215: the executable cannot be started, and the
\* finally block runs.
ClaudeSpawnError ==
    /\ provider = "claude-code"
    /\ ap = "called"
    /\ ap' = "raised"
    /\ temp_file' = Cleanup(CreateTempFile(prompt_len))
    /\ UNCHANGED <<loopVars, serverVars, pipeVars, prompt_len, child, provider, nRead,
                   partial_data, full_text, yielded, pending, chunks,
                   returncode, error_msg, line_str>>

\* Lines 115-149: one line of the child's stdout; lines 209-215 if reading
\* the decoded chunk raises.
ClaudeReadLine(line) ==
    /\ provider = "claude-code"
    /\ ap = "reading"
    /\ nRead < MaxReads
    /\ nRead' = nRead + 1
    /\ line_str' = Strip(line)
    /\ LET chunk == ParseChunk(line_str', partial_data)
           out == ChunkTexts(chunk)
       IN  IF line_str' = <<>>
           THEN UNCHANGED <<partial_data, chunks, full_text, yielded, ap>>
           ELSE IF chunk = PyNone
           THEN /\ partial_data' = partial_data \o line_str'
                /\ UNCHANGED <<chunks, full_text, yielded, ap>>
           ELSE /\ partial_data' = <<>>
                /\ chunks' = Append(chunks, chunk)
                /\ full_text' = full_text \o Concat(out.texts)
                /\ yielded' = yielded \o Fragments(out.texts)
                /\ ap' = IF out.raised THEN "raised" ELSE ap
    /\ temp_file' = IF ap' = "raised" THEN Cleanup(temp_file) ELSE temp_file
    /\ UNCHANGED <<loopVars, serverVars, pipeVars, prompt_len, child, provider,
                   pending, returncode, error_msg>>

\* ClaudeEof raising for every non-zero exit status.
ClaudeEofStrict(status, stderr_output) ==
    /\ provider = "claude-code"
    /\ ap = "reading"
    /\ child' = "exited"
    /\ returncode' = status
    /\ error_msg' = IF status # 0 THEN Strip(stderr_output) ELSE error_msg
    /\ IF status # 0
       THEN /\ ap' = "raised"
            /\ temp_file' = Cleanup(temp_file)
            /\ UNCHANGED pending
       ELSE /\ pending' = ParseToolUses(full_text)
            /\ ap' = "parsing"
            /\ UNCHANGED temp_file
    /\ UNCHANGED <<loopVars, serverVars, pipeVars, prompt_len, provider, nRead,
                   partial_data, full_text, yielded, chunks, line_str>>

\* Lines 117-118 and 151-180: stdout is at its end and the child has
\* exited; stderr is read if the exit status is not zero; lines 209-215 if
\* the status check raises.
ClaudeEof(status, stderr_output) ==
    /\ provider = "claude-code"
    /\ ap = "reading"
    /\ child' = "exited"
    /\ returncode' = status
    /\ error_msg' = IF status # 0 THEN Strip(stderr_output) ELSE error_msg
    /\ IF status # 0 /\ error_msg' # <<>>
       THEN /\ ap' = "raised"
            /\ temp_file' = Cleanup(temp_file)
            /\ UNCHANGED pending
       ELSE /\ pending' = ParseToolUses(full_text)
            /\ ap' = "parsing"
            /\ UNCHANGED temp_file
    /\ UNCHANGED <<loopVars, serverVars, pipeVars, prompt_len, provider, nRead,
                   partial_data, full_text, yielded, chunks, line_str>>

\* The consumer stops iterating while the generator is suspended in the try
\* block of claude_code_provider.py, at a yield or at the await of line
\* 116: the generator is closed and only the finally block, lines 209-215,
\* runs.
ClaudeCancel ==
    /\ provider = "claude-code"
    /\ ap \in {"reading", "parsing"}
    /\ ap' = "cancelled"
    /\ temp_file' = Cleanup(temp_file)
    /\ UNCHANGED <<loopVars, serverVars, pipeVars, prompt_len, child, provider, nRead,
                   partial_data, full_text, yielded, pending, chunks,
                   returncode, error_msg, line_str>>

\* Lines 96-101 of openai_provider.py, 202-207 of claude_code_provider.py:
\* the next tool_use fragment.
YieldToolUse ==
    /\ ap = "parsing"
    /\ pending # <<>>
    /\ yielded' = Append(yielded, Head(pending))
    /\ pending' = Tail(pending)
    /\ UNCHANGED <<loopVars, serverVars, pipeVars, prompt_len, temp_file, child,
                   provider, ap, nRead, partial_data, full_text, chunks,
                   returncode, error_msg, line_str>>

\* The generator is exhausted; in claude_code_provider.py the finally
\* block, lines 209-215, runs.
ProviderReturn ==
    /\ ap = "parsing"
    /\ pending = <<>>
    /\ ap' = "done"
    /\ temp_file' = IF provider = "claude-code" THEN Cleanup(temp_file)
                    ELSE temp_file
    /\ UNCHANGED <<loopVars, serverVars, pipeVars, prompt_len, child, provider, nRead,
                   partial_data, full_text, yielded, pending, chunks,
                   returncode, error_msg, line_str>>

ProviderNext ==
    \/ OpenAICreate
    \/ \E content \in Deltas : OpenAIDelta(content)
    \/ OpenAIError
    \/ OpenAIStreamEnd
    \/ ClaudeSpawn
    \/ ClaudeSpawnError
    \/ \E line \in StdoutLines : ClaudeReadLine(line)
    \/ \E status \in {0, 1}, stderr_output \in StderrOutputs :
           ClaudeEof(status, stderr_output)
    \/ ClaudeCancel
    \/ YieldToolUse
    \/ ProviderReturn

---------------------------------------------------------------------------
(* The subprocess adapter with its child (claude_code_provider.py, lines   *)
(* 85-170): the child writes its lines to the stdout pipe and its          *)
(* diagnostics to the stderr pipe, each of which holds a bounded amount of *)
(* unread data, and a write to a full pipe blocks the child.               *)

MaxOut == 2
MaxErr == 3

\* The unread data a pipe and the stream buffer behind it hold before a
\* write blocks, in lines for stdout and in blocks for stderr.
PipeCapacity == 2

\* A line of the child: a JSON string whose text is a read_file block.
ChildLine == <<Str("read")>>

\* What the child has written to stderr, as stderr.read() returns it.
StderrRead(n) == IF n = 0 THEN <<>> ELSE <<Txt("rate limited"), Txt("\n")>>

\* The scripts of a child: the lines and the blocks it writes, and its
\* exit status.
ChildScripts == [out : 0..MaxOut, err : 0..MaxErr, status : {0, 1}]

ChildInit ==
    /\ Constructed("AIClient", "ACT")
    /\ Called("claude-code", "called")
    /\ prompt_len = MAX_SYSTEM_PROMPT_LENGTH
    /\ environ \in CallerEnvironments
    /\ todo \in ChildScripts
    /\ NoServer

\* The child writes a line to stdout, if the pipe has room.
ChildWriteStdout ==
    /\ child = "running"
    /\ todo.out > 0
    /\ Len(stdout) < PipeCapacity
    /\ stdout' = Append(stdout, ChildLine)
    /\ todo' = [todo EXCEPT !.out = @ - 1]
    /\ UNCHANGED <<loopVars, serverVars, environ, env, stderr, prompt_len,
                   temp_file, child, provider, ap, nRead, partial_data,
                   full_text, yielded, pending, chunks, returncode,
                   error_msg, line_str>>

\* The child writes a block to stderr, if the pipe has room.
ChildWriteStderr ==
    /\ child = "running"
    /\ todo.err > 0
    /\ stderr < PipeCapacity
    /\ stderr' = stderr + 1
    /\ todo' = [todo EXCEPT !.err = @ - 1]
    /\ UNCHANGED <<loopVars, serverVars, environ, env, stdout, prompt_len,
                   temp_file, child, provider, ap, nRead, partial_data,
                   full_text, yielded, pending, chunks, returncode,
                   error_msg, line_str>>

\* The child has written everything and exits, which closes its ends of
\* the pipes.
ChildExit ==
    /\ child = "running"
    /\ todo.out = 0
    /\ todo.err = 0
    /\ child' = "exited"
    /\ returncode' = todo.status
    /\ UNCHANGED <<loopVars, serverVars, pipeVars, prompt_len, temp_file,
                   provider, ap, nRead, partial_data, full_text, yielded,
                   pending, chunks, error_msg, line_str>>

\* Lines 115-149: readline returns a line of the stdout pipe.
PipeReadLine ==
    /\ provider = "claude-code"
    /\ ap = "reading"
    /\ stdout # <<>>
    /\ stdout' = Tail(stdout)
    /\ nRead' = nRead + 1
    /\ line_str' = Strip(Head(stdout))
    /\ LET chunk == ParseChunk(line_str', partial_data)
           out == ChunkTexts(chunk)
       IN  IF line_str' = <<>>
           THEN UNCHANGED <<partial_data, chunks, full_text, yielded, ap>>
           ELSE IF chunk = PyNone
           THEN /\ partial_data' = partial_data \o line_str'
                /\ UNCHANGED <<chunks, full_text, yielded, ap>>
           ELSE /\ partial_data' = <<>>
                /\ chunks' = Append(chunks, chunk)
                /\ full_text' = full_text \o Concat(out.texts)
                /\ yielded' = yielded \o Fragments(out.texts)
                /\ ap' = IF out.raised THEN "raised" ELSE ap
    /\ temp_file' = IF ap' = "raised" THEN Cleanup(temp_file) ELSE temp_file
    /\ UNCHANGED <<loopVars, serverVars, environ, env, stderr, todo,
                   prompt_len, child, provider, pending, returncode,
                   error_msg>>

\* Lines 116-118 and 151-170: readline returns b"" once the child has
\* closed stdout and the pipe is empty, wait returns, and stderr is read
\* if the exit status is not zero; lines 209-215 if the status check
\* raises.
PipeEof ==
    /\ provider = "claude-code"
    /\ ap = "reading"
    /\ stdout = <<>>
    /\ child = "exited"
    /\ stderr' = IF returncode # 0 THEN 0 ELSE stderr
    /\ error_msg' = IF returncode # 0 THEN Strip(StderrRead(stderr))
                    ELSE error_msg
    /\ IF returncode # 0 /\ error_msg' # <<>>
       THEN /\ ap' = "raised"
            /\ temp_file' = Cleanup(temp_file)
            /\ UNCHANGED pending
       ELSE /\ pending' = ParseToolUses(full_text)
            /\ ap' = "parsing"
            /\ UNCHANGED temp_file
    /\ UNCHANGED <<loopVars, serverVars, environ, env, stdout, todo,
                   prompt_len, child, provider, nRead, partial_data,
                   full_text, yielded, chunks, returncode, line_str>>

\* The steps of the adapter's coroutine.
AdapterNext ==
    \/ ClaudeSpawn
    \/ PipeReadLine
    \/ PipeEof
    \/ YieldToolUse
    \/ ProviderReturn

\* The steps of the child process.
ChildProcessNext ==
    \/ ChildWriteStdout
    \/ ChildWriteStderr
    \/ ChildExit

ChildNext == AdapterNext \/ ChildProcessNext

(* The websocket server of src/main.py: every start_task message creates   *)
(* a Task of its own and runs Task.start as a background coroutine, so the *)
(* loops of several Tasks interleave at their awaits.  tasks[t] holds the  *)
(* attributes of the t-th Task and the locals of its task_loop; calls,     *)
(* nTexts and nTools count over all Tasks.  What the Tasks send to the     *)
(* websocket is not recorded.                                              *)

MaxTasks == 2

\* data["message"] of a start_task message.
TaskMessages == {TaskText, "list the files"}

\* The name the tool_use fragments of the server's Tasks carry.
ServerToolNames == {"read_file"}

\* The variables of the single loops and of the provider call, which the
\* server leaves alone.
serverFrame == <<pc, mode, abort, conversation_history, user_content,
                 assistant_message, tool_uses, idx, tool_results,
                 user_feedback, iteration, dispatched, events, program,
                 failures, last_input, iteration_end, call_mode,
                 providerVars, connections>>

\* Task.__init__, lines 7-22 of task.py; mode is the mode stream_message
\* defaults to, Task passing none.
NewTask(user_message) ==
    [user_message |-> user_message,
     pc |-> "created",
     mode |-> "ACT",
     abort |-> FALSE,
     conversation_history |-> <<>>,
     user_content |-> <<>>,
     assistant_message |-> <<>>,
     tool_results |-> <<>>]

\* AppendTurn on a conversation list that all Tasks share.
AppendTurnShared(ts, t, turn) ==
    [u \in DOMAIN ts |->
        [ts[u] EXCEPT !.conversation_history = Append(@, turn)]]

\* self.conversation_history.append(...), lines 42-45 and 68-71.
AppendTurn(ts, t, turn) ==
    [ts EXCEPT ![t].conversation_history = Append(@, turn)]

\* Lines 103-129 of task.py: the result string of execute_tool.
ExecuteToolResult(name, raises) ==
    IF name \notin TaskTools THEN UnknownToolMsg(name)
    ELSE IF raises THEN ErrorMsg(ToolException)
    ELSE ToolOutput(name)

\* Lines 26-44 of main.py: a start_task message arrives.
StartTask(message) ==
    /\ Len(tasks) < MaxTasks
    /\ tasks' = Append(tasks, NewTask(message))
    /\ UNCHANGED <<serverFrame, calls, nTools, nTexts>>

\* Task.start of the t-th Task.
ServerTaskStart(t) ==
    /\ t \in DOMAIN tasks
    /\ tasks[t].pc = "created"
    /\ tasks' = [tasks EXCEPT
                    ![t].user_content = InitialContent(tasks[t].user_message),
                    ![t].pc = "top"]
    /\ UNCHANGED <<serverFrame, calls, nTools, nTexts>>

\* Lines 37-53 of task.py in the t-th Task.
ServerIterate(t) ==
    /\ t \in DOMAIN tasks
    /\ tasks[t].pc = "top"
    /\ ~tasks[t].abort
    /\ calls < MaxIter
    /\ calls' = calls + 1
    /\ tasks' = [AppendTurn(tasks, t,
                            Turn("user",
                                 FullUserContent(tasks[t].user_content,
                                                 Context)))
                    EXCEPT ![t].assistant_message = <<>>,
                           ![t].tool_results = <<>>,
                           ![t].pc = "streaming"]
    /\ UNCHANGED <<serverFrame, nTools, nTexts>>

\* Lines 38-39 and 84-101 in the t-th Task: build_context raises and the
\* coroutine ends.
ServerContextError(t) ==
    /\ t \in DOMAIN tasks
    /\ tasks[t].pc = "top"
    /\ ~tasks[t].abort
    /\ tasks' = [tasks EXCEPT ![t].pc = "context_error"]
    /\ UNCHANGED <<serverFrame, calls, nTools, nTexts>>

\* Lines 54-56 in the t-th Task.
ServerStreamText(t) ==
    /\ t \in DOMAIN tasks
    /\ tasks[t].pc = "streaming"
    /\ tasks[t].tool_results = <<>>
    /\ nTexts < MaxTexts
    /\ nTexts' = nTexts + 1
    /\ tasks' = [tasks EXCEPT
                    ![t].assistant_message = Append(@, TextChunk)]
    /\ UNCHANGED <<serverFrame, calls, nTools>>

\* Lines 58-65 and execute_tool in the t-th Task.
ServerExecuteTool(t, name, raises) ==
    /\ t \in DOMAIN tasks
    /\ tasks[t].pc = "streaming"
    /\ nTools < MaxToolUses
    /\ nTools' = nTools + 1
    /\ tasks' = [tasks EXCEPT
                    ![t].tool_results =
                        Append(@, ToolResult(ToolId(name),
                                             ExecuteToolResult(name,
                                                               raises)))]
    /\ UNCHANGED <<serverFrame, calls, nTexts>>

\* Lines 51-53 in the t-th Task: the stream raises and the coroutine ends.
ServerStreamError(t) ==
    /\ t \in DOMAIN tasks
    /\ tasks[t].pc = "streaming"
    /\ tasks' = [tasks EXCEPT ![t].pc = "error"]
    /\ UNCHANGED <<serverFrame, calls, nTools, nTexts>>

\* Lines 67-82 in the t-th Task.
ServerStreamEnd(t) ==
    /\ t \in DOMAIN tasks
    /\ tasks[t].pc = "streaming"
    /\ tasks' = [AppendTurn(tasks, t,
                            Turn("assistant", tasks[t].assistant_message))
                    EXCEPT ![t].user_content =
                               TaskFold(tasks[t].tool_results),
                           ![t].pc = "top"]
    /\ UNCHANGED <<serverFrame, calls, nTools, nTexts>>

ServerNext ==
    \/ \E message \in TaskMessages : StartTask(message)
    \/ \E t \in 1..MaxTasks : ServerTaskStart(t)
    \/ \E t \in 1..MaxTasks : ServerIterate(t)
    \/ \E t \in 1..MaxTasks : ServerContextError(t)
    \/ \E t \in 1..MaxTasks : ServerStreamText(t)
    \/ \E t \in 1..MaxTasks, name \in ServerToolNames, raises \in BOOLEAN :
           ServerExecuteTool(t, name, raises)
    \/ \E t \in 1..MaxTasks : ServerStreamError(t)
    \/ \E t \in 1..MaxTasks : ServerStreamEnd(t)

---------------------------------------------------------------------------
(* The program is either loop.                                             *)

\* No stream_message call is looked into.
NoProviderCall == Called("none", "idle") /\ prompt_len = 0 /\ NoPipes

Init == (AgentInit \/ TaskInit) /\ NoProviderCall /\ NoServer

Next == AgentNext \/ TaskNext

Spec == Init /\ [][Next]_vars

\* The tool names of the fragments a Task with a closing websocket gets:
\* a registered tool and one that Task does not register.
SinkToolNames == {"read_file", "plan_mode_respond"}

\* Task.__init__ with the websocket the endpoint accepted.
SinkInit == TaskInit /\ NoProviderCall /\ NoServer

SinkNext ==
    \/ TaskStart
    \/ WebSocketDisconnect
    \/ TaskSetAbort
    \/ TaskAborted
    \/ TaskIterate
    \/ TaskContextError
    \/ TaskStreamText
    \/ \E name \in SinkToolNames, raises \in BOOLEAN :
           TaskExecuteTool(name, raises)
    \/ \E name \in SinkToolNames : TaskUnknownTool(name)
    \/ TaskStreamError
    \/ TaskStreamEnd

\* A Task whose client may disconnect at any moment of its run.
SinkSpec == SinkInit /\ [][SinkNext]_vars

\* One call of stream_message, looked into.
ProviderSpec == ProviderInit /\ [][ProviderNext]_vars

\* One call of the subprocess adapter with its child: the event loop runs
\* the adapter whenever it can go on, and the operating system runs the
\* child whenever it is not blocked.
ChildSpec ==
    /\ ChildInit
    /\ [][ChildNext]_vars
    /\ WF_vars(AdapterNext)
    /\ WF_vars(ChildProcessNext)

\* Lines 14-24 of main.py: the server runs and no Task was created yet.
ServerInit ==
    /\ Constructed("main", "ACT")
    /\ NoProviderCall
    /\ NoServer

\* The server with the Tasks it created.
ServerSpec == ServerInit /\ [][ServerNext]_vars

---------------------------------------------------------------------------
(* Properties.                                                             *)

Names(uses) == [i \in DOMAIN uses |-> uses[i].name]

DispatchedNames == [i \in DOMAIN dispatched |-> dispatched[i].name]

\* C1: in SimpleAgent.task_loop, while mode is PLAN no step calls the tool
\* registry for write_to_file or attempt_completion: the mode check answers
\* such an invocation with the rejection string as one more tool result and
\* goes on to the next invocation.  In mode ACT the mode check lets
\* read_file, search_files, write_to_file and attempt_completion through
\* to the registry.
C1_ModePolicy ==
    [][program = "SimpleAgent" =>
        /\ (mode = "PLAN" /\ dispatched' # dispatched) =>
               Last(dispatched').name
                   \notin {"write_to_file", "attempt_completion"}
        /\ pc = "check" =>
               LET name == tool_uses[idx].name IN
               /\ (mode = "PLAN"
                   /\ name \in {"write_to_file", "attempt_completion"}) =>
                      /\ dispatched' = dispatched
                      /\ tool_results' =
                             Append(tool_results,
                                    ToolResult(tool_uses[idx].id,
                                               RejectionMsg(name)))
                      /\ idx' = idx + 1
                      /\ pc' = "for"
               /\ (mode = "ACT"
                   /\ name \in {"read_file", "search_files",
                                "write_to_file", "attempt_completion"}) =>
                      /\ Len(dispatched') = Len(dispatched) + 1
                      /\ Last(dispatched').name = name
                      /\ Last(dispatched').pos = idx]_vars

\* Both act-only tools of one batch were rejected in PLAN mode and the
\* batch was folded into the next user content.
C1_Witness ==
    /\ program = "SimpleAgent"
    /\ mode = "PLAN"
    /\ pc = "top"
    /\ Names(tool_uses) = <<"write_to_file", "attempt_completion">>
    /\ tool_results =
           <<ToolResult(ToolId("write_to_file"), RejectionMsg("write_to_file")),
             ToolResult(ToolId("attempt_completion"),
                        RejectionMsg("attempt_completion"))>>
    /\ dispatched = <<>>
    /\ user_content = JoinResults(tool_results)

\* C2: once attempt_completion has been dispatched and has returned, the
\* loop is COMPLETED and has stopped: that dispatch is the last one, no
\* provider call follows it and no turn is appended after it.
C2_CompletionStops ==
    \A i \in DOMAIN dispatched :
        (dispatched[i].name = "attempt_completion" /\ dispatched[i].ok) =>
            /\ pc = "completed"
            /\ i = Len(dispatched)
            /\ calls = dispatched[i].call
            /\ Len(conversation_history) = 2 * dispatched[i].call

\* C3: in SimpleAgent.task_loop started in ACT, when the first turn holds
\* text, then write_to_file, then attempt_completion, the loop ends the
\* iteration either COMPLETED, having dispatched write_to_file and then
\* attempt_completion and made one provider call, or, when it goes on,
\* because the human typed feedback or attempt_completion raised.
C3_WriteThenComplete ==
    (/\ program = "SimpleAgent"
     /\ iteration = 1
     /\ mode = "ACT"
     /\ assistant_message # <<>>
     /\ Names(tool_uses) = <<"write_to_file", "attempt_completion">>) =>
        /\ pc = "completed" =>
               /\ DispatchedNames = <<"write_to_file", "attempt_completion">>
               /\ calls = 1
               /\ Len(conversation_history) = 2
        /\ pc = "top" =>
               \/ user_feedback # None
               \/ /\ Len(dispatched) = 2
                  /\ ~dispatched[2].ok

\* The scenario ran to COMPLETED: the write returned, then the completion.
C3_Witness ==
    /\ program = "SimpleAgent"
    /\ pc = "completed"
    /\ iteration = 1
    /\ calls = 1
    /\ assistant_message = <<TextChunk>>
    /\ Names(tool_uses) = <<"write_to_file", "attempt_completion">>
    /\ dispatched = <<Dispatch(1, 1, "write_to_file", TRUE),
                      Dispatch(1, 2, "attempt_completion", TRUE)>>
    /\ last_input = <<>>

\* C4: when a provider turn ends without a tool_use fragment, that
\* iteration has dispatched no tool, the next user content is the nudge
\* text, and the loop is back at its top; the provider call that follows
\* is one more call, made after appending a user turn that begins with
\* the pending user content.
C4_NudgeWithoutInvocation ==
    [][/\ (/\ pc = "streaming"
           /\ pc' = "top"
           /\ IF program = "SimpleAgent"
              THEN tool_uses = <<>> ELSE tool_results = <<>>) =>
              /\ \A i \in DOMAIN dispatched' : dispatched'[i].call # calls
              /\ user_content' =
                     IF program = "SimpleAgent" THEN AgentNudge ELSE TaskNudge
              /\ calls' = calls
       /\ (pc = "top" /\ pc' = "streaming") =>
              /\ calls' = calls + 1
              /\ Len(conversation_history') = Len(conversation_history) + 1
              /\ Last(conversation_history').role = "user"
              /\ IsPrefix(user_content, Last(conversation_history').content)]_vars

\* The second provider call of Task.task_loop runs on a user turn that
\* begins with the nudge, after a first iteration without any dispatch.
C4_Witness ==
    /\ program = "Task"
    /\ pc = "streaming"
    /\ calls = 2
    /\ dispatched = <<>>
    /\ Len(conversation_history) = 3
    /\ IsPrefix(TaskNudge, conversation_history[3].content)

\* C5: a failure of stream_message ends the loop: the step that takes the
\* failure makes no provider call, dispatches nothing, leaves the
\* conversation alone and puts the loop in its error state, and no step
\* is taken once a failure has happened.
C5_ProviderFailureEndsLoop ==
    [][/\ failures = 0
       /\ failures' # failures =>
              /\ failures' = 1
              /\ pc' = "error"
              /\ calls' = calls
              /\ dispatched' = dispatched
              /\ conversation_history' = conversation_history]_vars

\* The provider failed on the second call of SimpleAgent.task_loop.
C5_Witness ==
    /\ program = "SimpleAgent"
    /\ pc = "error"
    /\ failures = 1
    /\ calls = 2

\* C6, as stated: after a provider failure on iteration 2 the conversation
\* equals the conversation at the end of iteration 1.
C6_ConversationAsAtIterationEnd ==
    (pc = "error" /\ calls = 2) => conversation_history = iteration_end

\* C6, amended: after a provider failure the conversation is the
\* conversation at the end of the previous iteration followed by the user
\* turn of the failed iteration (the pending user content and the
\* environment context) and by nothing else: no assistant turn of the
\* failed iteration is recorded; and exactly one failure has surfaced.
C6_FailureKeepsUserTurn ==
    pc = "error" =>
        /\ failures = 1
        /\ conversation_history =
               Append(iteration_end,
                      Turn("user", FullUserContent(user_content, Context)))
        /\ Len(iteration_end) = 2 * (calls - 1)
        /\ calls >= 2 => Last(iteration_end).role = "assistant"

\* Task.task_loop failed on its second provider call.
C6_Witness ==
    /\ program = "Task"
    /\ pc = "error"
    /\ calls = 2
    /\ Len(conversation_history) = 3
    /\ Len(iteration_end) = 2

\* C7: when Task.task_loop reaches the top of an iteration with the abort
\* flag set, its only step leaves the loop: no user turn is appended, no
\* provider call is started and the pending user content is left as it is.
C7_AbortHalts ==
    [][(program = "Task" /\ pc = "top" /\ abort) =>
          /\ pc' = "aborted"
          /\ conversation_history' = conversation_history
          /\ calls' = calls
          /\ user_content' = user_content]_vars

\* The loop was aborted with tool results pending as the next user content.
C7_Witness ==
    /\ program = "Task"
    /\ pc = "aborted"
    /\ abort
    /\ calls = 1
    /\ tool_results # <<>>
    /\ user_content = JoinResults(tool_results)
    /\ Len(conversation_history) = 2

\* C8: a registered tool that raises yields the result 'Error: <description>'
\* and an unregistered tool name yields 'Unknown tool: <name>' without a
\* registry call; in both cases the loop stays where the next invocation
\* is taken and no error state is entered.
C8_ToolFailureRecovered ==
    [][/\ (dispatched' # dispatched /\ ~Last(dispatched').ok) =>
              /\ Len(tool_results') = Len(tool_results) + 1
              /\ Last(tool_results') =
                     ToolResult(<<"tool_", Last(dispatched').name>>,
                                <<"Error: ", ToolException>>)
              /\ pc' = IF program = "SimpleAgent" THEN "for" ELSE "streaming"
       /\ (/\ program = "SimpleAgent"
           /\ pc = "check"
           /\ tool_uses[idx].name = "ask_followup_question") =>
              /\ dispatched' = dispatched
              /\ tool_results' =
                     Append(tool_results,
                            ToolResult(tool_uses[idx].id,
                                       <<"Unknown tool: ",
                                         "ask_followup_question">>))
              /\ idx' = idx + 1
              /\ pc' = "for"
       /\ (/\ program = "Task"
           /\ nTools' # nTools
           /\ Last(tool_results').tool_use_id[2]
                  \in {"ask_followup_question", "plan_mode_respond"}) =>
              /\ dispatched' = dispatched
              /\ Len(tool_results') = Len(tool_results) + 1
              /\ Last(tool_results').content =
                     <<"Unknown tool: ", Last(tool_results').tool_use_id[2]>>
              /\ pc' = "streaming"
       /\ pc' = "error" => failures' = failures + 1]_vars

\* In one iteration of Task.task_loop a tool raised and a name was not
\* registered; both results were folded into the next user content.
C8_Witness ==
    /\ program = "Task"
    /\ pc = "top"
    /\ calls = 1
    /\ tool_results =
           <<ToolResult(ToolId("read_file"), ErrorMsg(ToolException)),
             ToolResult(ToolId("plan_mode_respond"),
                        UnknownToolMsg("plan_mode_respond"))>>
    /\ user_content = JoinResults(tool_results)

\* C9: when the human types feedback at the interrupt prompt of
\* SimpleAgent.task_loop, that step dispatches nothing and ends the batch:
\* the next user content is the feedback in a feedback block, the loop is
\* at its top, and the step from there dispatches nothing and drops the
\* batch.
C9_FeedbackEndsBatch ==
    [][program = "SimpleAgent" =>
        /\ (pc = "confirm" /\ last_input' # <<>>) =>
               /\ dispatched' = dispatched
               /\ tool_results' = tool_results
               /\ user_content' =
                      <<"<feedback>\n">> \o last_input' \o <<"\n</feedback>">>
               /\ pc' = "top"
        /\ pc = "top" =>
               /\ dispatched' = dispatched
               /\ tool_uses' = <<>>
               /\ Last(conversation_history').content =
                      user_content \o <<"\n\n", Context>>]_vars

\* Feedback was typed for the first of two invocations: none was
\* dispatched and the feedback block is the pending user content.
C9_Witness ==
    /\ program = "SimpleAgent"
    /\ pc = "top"
    /\ Len(tool_uses) = 2
    /\ idx = 1
    /\ user_feedback = <<"use another file">>
    /\ dispatched = <<>>
    /\ user_content = FeedbackBlock(user_feedback)

\* C10: the interrupt prompt of SimpleAgent.task_loop is offered only for
\* an invocation that the mode permits and whose name is not
\* attempt_completion, ask_followup_question or plan_mode_respond.
C10_PolicyBeforeConfirmation ==
    (program = "SimpleAgent" /\ pc = "confirm") =>
        /\ ~(/\ mode = "PLAN"
             /\ tool_uses[idx].name
                    \in {"write_to_file", "attempt_completion"})
        /\ tool_uses[idx].name
               \notin {"attempt_completion", "ask_followup_question",
                       "plan_mode_respond"}

\* C11: once the loop runs, the mode changes only in the step that handles
\* a plan_mode_respond invocation of SimpleAgent.task_loop for which the
\* human entered 'switch', and then from PLAN to ACT; no step ever takes
\* the mode from ACT to another value.
C11_ModeChangesOnlyBySwitch ==
    [][/\ (pc # "created" /\ mode' # mode) =>
              /\ program = "SimpleAgent"
              /\ pc = "plan_prompt"
              /\ tool_uses[idx].name = "plan_mode_respond"
              /\ last_input' = <<"switch">>
              /\ mode = "PLAN"
              /\ mode' = "ACT"
       /\ mode = "ACT" => mode' = "ACT"]_vars

\* The provider was called in PLAN mode and the human entered 'switch'
\* for the plan_mode_respond invocation of that batch.
C11_Witness ==
    /\ program = "SimpleAgent"
    /\ pc = "for"
    /\ call_mode = "PLAN"
    /\ mode = "ACT"
    /\ last_input = <<"switch">>
    /\ tool_uses[idx - 1].name = "plan_mode_respond"

\* C12: no registry call is ever recorded for plan_mode_respond; in
\* SimpleAgent.task_loop, in PLAN and in ACT, the mode check passes a
\* plan_mode_respond invocation to the switch prompt without a result, and
\* the answer to the prompt appends exactly one result for that invocation,
\* one of the two fixed strings according to whether 'switch' was entered,
\* and moves to the next invocation.
C12_PlanRespondNeverDispatched ==
    [][/\ \A i \in DOMAIN dispatched' :
              dispatched'[i].name # "plan_mode_respond"
       /\ (/\ program = "SimpleAgent"
           /\ pc = "check"
           /\ tool_uses[idx].name = "plan_mode_respond") =>
              /\ pc' = "plan_prompt"
              /\ dispatched' = dispatched
              /\ tool_results' = tool_results
              /\ idx' = idx
       /\ (program = "SimpleAgent" /\ pc = "plan_prompt") =>
              /\ tool_uses[idx].name = "plan_mode_respond"
              /\ dispatched' = dispatched
              /\ Len(tool_results') = Len(tool_results) + 1
              /\ SubSeq(tool_results', 1, Len(tool_results)) = tool_results
              /\ Last(tool_results').tool_use_id = tool_uses[idx].id
              /\ Last(tool_results').content =
                     IF last_input' = <<"switch">>
                     THEN <<"User switched to ACT mode. You can now execute actions.">>
                     ELSE <<"Plan acknowledged. Continue in PLAN mode.">>
              /\ idx' = idx + 1
              /\ pc' = "for"]_vars

\* In ACT mode a plan_mode_respond invocation was acknowledged without
\* 'switch' and the loop went on to the invocation after it.
C12_Witness ==
    /\ program = "SimpleAgent"
    /\ call_mode = "ACT"
    /\ pc = "check"
    /\ idx = 2
    /\ tool_uses[1].name = "plan_mode_respond"
    /\ tool_results =
           <<ToolResult(ToolId("plan_mode_respond"), AcknowledgedMsg)>>
    /\ dispatched = <<>>

\* C13: every invocation of a batch of SimpleAgent.task_loop is
\* policy-checked against the mode that was passed to the provider call of
\* that iteration.
C13_ModeFixedWithinIteration ==
    (program = "SimpleAgent" /\ pc = "check") => mode = call_mode

\* The results in order, each as '[<id>] Result: <content>', with a blank
\* line between two of them.
RECURSIVE JoinedInOrder(_, _)
JoinedInOrder(rs, i) ==
    IF i > Len(rs) THEN <<>>
    ELSE <<"[">> \o rs[i].tool_use_id \o <<"] Result: ">> \o rs[i].content
         \o (IF i < Len(rs) THEN <<"\n\n">> ELSE <<>>)
         \o JoinedInOrder(rs, i + 1)

\* C15: when SimpleAgent.task_loop leaves a batch that gave no feedback and
\* no completion, there is one result per invocation, the i-th result has
\* the id of the i-th invocation, and the next user content is the results
\* joined in order. In Task.task_loop every tool_use chunk appends one
\* result, after those already there, and the stream's end makes the join
\* of the results the next user content.
C15_OneResultPerInvocation ==
    [][/\ (/\ program = "SimpleAgent"
           /\ pc = "for"
           /\ pc' = "top") =>
              /\ user_feedback = None
              /\ Len(tool_results) = Len(tool_uses)
              /\ \A i \in DOMAIN tool_uses :
                     tool_results[i].tool_use_id = tool_uses[i].id
              /\ user_content' = JoinedInOrder(tool_results, 1)
       /\ (program = "Task" /\ nTools' # nTools) =>
              /\ Len(tool_results') = Len(tool_results) + 1
              /\ SubSeq(tool_results', 1, Len(tool_results)) = tool_results
       /\ (/\ program = "Task"
           /\ pc = "streaming"
           /\ pc' = "top"
           /\ tool_results # <<>>) =>
              user_content' = JoinedInOrder(tool_results, 1)]_vars

\* A batch of two invocations of SimpleAgent.task_loop, one rejected by the
\* mode and one executed, was folded into the next user content.
C15_Witness ==
    /\ program = "SimpleAgent"
    /\ pc = "top"
    /\ Len(tool_uses) = 2
    /\ user_feedback = None
    /\ tool_results =
           <<ToolResult(ToolId("attempt_completion"),
                        RejectionMsg("attempt_completion")),
             ToolResult(ToolId("read_file"), ToolOutput("read_file"))>>
    /\ user_content =
           <<"[", "tool_", "attempt_completion", "] Result: ", "Error: ",
             "attempt_completion",
             " is not available in PLAN mode. Use plan_mode_respond to present your plan first.",
             "\n\n",
             "[", "tool_", "read_file", "] Result: ", "output of ",
             "read_file">>

\* C16: every step of either loop leaves the conversation as it is or
\* appends to it, and the roles of the conversation alternate, the first
\* being user.
C16_AppendOnlyAlternating ==
    [][/\ IsPrefix(conversation_history, conversation_history')
       /\ \A i \in DOMAIN conversation_history' :
              conversation_history'[i].role =
                  IF i % 2 = 1 THEN "user" ELSE "assistant"]_vars

\* Two iterations of Task.task_loop, the first without text from the
\* provider, left four turns.
C16_Witness ==
    /\ program = "Task"
    /\ pc = "top"
    /\ Len(conversation_history) = 4
    /\ conversation_history[2] = Turn("assistant", <<>>)
    /\ conversation_history[3].role = "user"
    /\ conversation_history[4].role = "assistant"

\* C17: a freshly constructed loop has an empty conversation; the first
\* user turn begins with the task text in its task block; and the first
\* provider call is made in PLAN mode unless the caller chose ACT at the
\* start prompt.
C17_StartState ==
    /\ pc = "created" => conversation_history = <<>>
    /\ conversation_history # <<>> =>
           /\ conversation_history[1].role = "user"
           /\ IsPrefix(<<"<task>\n", TaskText>>,
                       conversation_history[1].content)
    /\ (calls = 1 /\ pc = "streaming") =>
           \/ call_mode = "PLAN"
           \/ /\ program = "SimpleAgent"
              /\ last_input = <<"2">>
              /\ call_mode = "ACT"

---------------------------------------------------------------------------
(* Properties of the provider adapters.                                    *)

\* The texts of the text fragments among frs, concatenated in order.
RECURSIVE YieldedText(_)
YieldedText(frs) ==
    IF frs = <<>> THEN <<>>
    ELSE (IF frs[1].type = "text" THEN frs[1].text ELSE <<>>)
         \o YieldedText(Tail(frs))

\* The tool_use fragments among frs, in order.
RECURSIVE YieldedToolUses(_)
YieldedToolUses(frs) ==
    IF frs = <<>> THEN <<>>
    ELSE (IF frs[1].type = "tool_use" THEN <<frs[1]>> ELSE <<>>)
         \o YieldedToolUses(Tail(frs))

\* C14: in a call of stream_message of either adapter, no text fragment
\* is yielded after a tool_use fragment, and the text fragments carry the
\* text in the order in which it was received.
C14_TextBeforeToolUse ==
    /\ \A i, j \in DOMAIN yielded :
           (i < j /\ yielded[i].type = "tool_use") =>
               yielded[j].type = "tool_use"
    /\ YieldedText(yielded) = full_text

\* A call ended after two text fragments and the tool_use fragment of the
\* block in the second.
C14_Witness ==
    /\ ap = "done"
    /\ Len(yielded) = 3
    /\ yielded[1] = TextFragment(<<Txt("x")>>)
    /\ yielded[2].type = "text"
    /\ yielded[3].type = "tool_use"
    /\ yielded[3].name = "read_file"

Whitelist == {"read_file", "write_to_file", "search_files",
              "attempt_completion", "plan_mode_respond",
              "ask_followup_question"}

\* Position i of t opens a block: an opening tag with a closing tag of its
\* name after it.  The block ends at the first such closing tag.
OpensBlock(t, i) ==
    /\ t[i].tag = "open"
    /\ \E k \in (i + 1)..Len(t) : t[k] = Close(t[i].name)

BlockEnd(t, i) ==
    CHOOSE k \in (i + 1)..Len(t) :
        /\ t[k] = Close(t[i].name)
        /\ \A l \in (i + 1)..(k - 1) : t[l] # Close(t[i].name)

\* Position i of t opens a well-formed block: the next tag of its name
\* after it is its closing tag.
WellFormedBlock(t, i) ==
    /\ OpensBlock(t, i)
    /\ \A l \in (i + 1)..(BlockEnd(t, i) - 1) : t[l] # Open(t[i].name)

\* The names of the well-formed blocks of t from position i on that are
\* in the whitelist, in text order.
RECURSIVE WhitelistedBlockNames(_, _)
WhitelistedBlockNames(t, i) ==
    IF i > Len(t) THEN <<>>
    ELSE (IF WellFormedBlock(t, i) /\ t[i].name \in Whitelist
          THEN <<t[i].name>> ELSE <<>>)
         \o WhitelistedBlockNames(t, i + 1)

\* The top-level blocks of t from position i on, in text order: the blocks
\* that do not start inside an earlier top-level block, the last of which
\* ends at position limit.
RECURSIVE TopLevelBlocks(_, _, _)
TopLevelBlocks(t, i, limit) ==
    IF i > Len(t) THEN <<>>
    ELSE IF i > limit /\ OpensBlock(t, i)
    THEN <<[name |-> t[i].name,
            content |-> SubSeq(t, i + 1, BlockEnd(t, i) - 1)]>>
             \o TopLevelBlocks(t, i + 1, BlockEnd(t, i))
    ELSE TopLevelBlocks(t, i + 1, limit)

\* The blocks among bs whose name is in the whitelist.
RECURSIVE Whitelisted(_)
Whitelisted(bs) ==
    IF bs = <<>> THEN <<>>
    ELSE (IF bs[1].name \in Whitelist THEN <<bs[1]>> ELSE <<>>)
         \o Whitelisted(Tail(bs))

\* v is inner without the whitespace at its two ends.
Trimmed(inner, v) ==
    /\ v # <<>> => (v[1] \notin Whitespace /\ v[Len(v)] \notin Whitespace)
    /\ \E a \in 0..Len(inner) :
           /\ a + Len(v) <= Len(inner)
           /\ SubSeq(inner, a + 1, a + Len(v)) = v
           /\ \A l \in 1..a : inner[l] \in Whitespace
           /\ \A l \in (a + Len(v) + 1)..Len(inner) : inner[l] \in Whitespace

\* params holds, for every name among the child blocks, the trimmed inner
\* text of the last child of that name (a list only for options).
ParamsOfChildren(params, children) ==
    /\ DOMAIN params = {children[j].name : j \in DOMAIN children}
    /\ \A j \in DOMAIN children :
           (\A l \in DOMAIN children :
                children[l].name = children[j].name => l <= j) =>
               IF params[children[j].name].list
               THEN children[j].name = "options"
               ELSE Trimmed(children[j].content,
                            params[children[j].name].text)

\* C18 as stated: when a call has ended, its tool_use fragments are, in
\* text order, one per well-formed block of the accumulated text whose
\* name is in the whitelist.
C18_OneInvocationPerBlock ==
    ap = "done" =>
        [i \in DOMAIN YieldedToolUses(yielded) |->
             YieldedToolUses(yielded)[i].name]
            = WhitelistedBlockNames(full_text, 1)

\* C18, amended: when a call has ended, its tool_use fragments are, in
\* text order, one per top-level block of the accumulated text whose name
\* is in the whitelist, each with the block's name and with the trimmed
\* inner text of the block's own top-level child blocks as parameters (the
\* last child of a name wins); no fragment has a name outside the
\* whitelist, and a block that starts inside another top-level block, of
\* whatever name, yields none.
C18_OneInvocationPerTopLevelBlock ==
    ap = "done" =>
        LET uses == YieldedToolUses(yielded)
            blocks == Whitelisted(TopLevelBlocks(full_text, 1, 0))
        IN  /\ Len(uses) = Len(blocks)
            /\ \A i \in DOMAIN uses :
                   /\ uses[i].name = blocks[i].name
                   /\ uses[i].name \in Whitelist
                   /\ ParamsOfChildren(
                          uses[i].input,
                          TopLevelBlocks(blocks[i].content, 1, 0))

\* A call ended on a write_to_file block whose content parameter holds a
\* whole read_file block: one tool_use fragment, for write_to_file.
C18_Witness ==
    /\ ap = "done"
    /\ full_text = PieceText("open write") \o PieceText("read")
                       \o PieceText("close write")
    /\ Len(YieldedToolUses(yielded)) = 1
    /\ YieldedToolUses(yielded)[1].name = "write_to_file"
    /\ YieldedToolUses(yielded)[1].input["content"].text = PieceText("read")

\* The inner text without the whitespace at its two ends.
TrimOf(inner) ==
    CHOOSE v \in {SubSeq(inner, a, b) :
                      a \in 1..(Len(inner) + 1), b \in 0..Len(inner)} :
        Trimmed(inner, v)

\* v is the text of a list of string literals: [ "..." , "..." ].
StringListLiteral(v) ==
    /\ Len(v) >= 3
    /\ Len(v) % 2 = 1
    /\ v[1] = P("[")
    /\ v[Len(v)] = P("]")
    /\ \A l \in 2..(Len(v) - 1) :
           IF l % 2 = 0 THEN v[l].tag = "str" ELSE v[l] = P(",")

\* The strings of such a list, in order.
StringListItems(v) == [l \in 1..((Len(v) - 1) \div 2) |-> JStr(v[2 * l].name)]

\* C19: when a call has ended, every top-level whitelisted block of the
\* text has its tool_use fragment, and in it: an options parameter whose
\* trimmed value starts with '[' is the list of the strings when the value
\* is a list of string literals, and is the trimmed value itself, as a
\* string, when the value holds anything that is not JSON; an options
\* parameter that does not start with '[' and every parameter of another
\* name is a string.
C19_OptionsDecodedOrKept ==
    ap = "done" =>
        LET uses == YieldedToolUses(yielded)
            blocks == Whitelisted(TopLevelBlocks(full_text, 1, 0))
        IN  \A i \in DOMAIN blocks :
                /\ i \in DOMAIN uses
                /\ LET children == TopLevelBlocks(blocks[i].content, 1, 0)
                   IN  \A j \in DOMAIN children :
                           (\A l \in DOMAIN children :
                                children[l].name = children[j].name
                                    => l <= j) =>
                               LET n == children[j].name
                                   v == TrimOf(children[j].content)
                               IN  /\ n \in DOMAIN uses[i].input
                                   /\ IF /\ n = "options"
                                         /\ v # <<>>
                                         /\ v[1] = P("[")
                                      THEN /\ StringListLiteral(v) =>
                                                uses[i].input[n] =
                                                    PyList(StringListItems(v))
                                           /\ (\E l \in DOMAIN v :
                                                   v[l].tag \in {"text", "open",
                                                                 "close"}) =>
                                                uses[i].input[n] = PyStr(v)
                                      ELSE uses[i].input[n] = PyStr(v)

\* A call ended on two ask_followup_question blocks, one with the options
\* ["a","b"] and one with the options [not json.
C19_Witness ==
    /\ ap = "done"
    /\ full_text = PieceText("ask list") \o PieceText("ask not json")
    /\ Len(YieldedToolUses(yielded)) = 2
    /\ YieldedToolUses(yielded)[1].input["options"] =
           PyList(<<JStr("a"), JStr("b")>>)
    /\ YieldedToolUses(yielded)[2].input["options"] =
           PyStr(<<P("["), Txt("not json")>>)

\* The line reader reads a line that does not decode alone while it holds
\* lines that do not decode alone, and the two together decode to a
\* record.
SplitRecordRead ==
    /\ provider = "claude-code"
    /\ ap = "reading"
    /\ nRead' = nRead + 1
    /\ partial_data # <<>>
    /\ ~JsonLoads(partial_data).ok
    /\ ~JsonLoads(line_str').ok
    /\ JsonLoads(partial_data \o line_str').ok
    /\ JsonLoads(partial_data \o line_str').val.k = "obj"

\* That read yields exactly one decoded record, the one of the
\* concatenation, empties the buffer, and raises nothing for the decoding.
OneRecordDecoded ==
    /\ chunks' = Append(chunks, JsonLoads(partial_data \o line_str').val)
    /\ partial_data' = <<>>
    /\ ap' # "reading" =>
           /\ ap' = "raised"
           /\ Get(Last(chunks'), "type", PyNone) = JStr("assistant")

\* The line reader holds the line first and reads the line second.
ReadsAfter(first, second) ==
    /\ provider = "claude-code"
    /\ ap = "reading"
    /\ nRead' = nRead + 1
    /\ partial_data = first
    /\ line_str' = second

\* C20 as stated: a record split over two lines is decoded once and leaves
\* the buffer empty, and the lines {"partial": and "ok":true} are such a
\* split.
C20_SplitRecordAsStated ==
    [][/\ SplitRecordRead => OneRecordDecoded
       /\ ReadsAfter(<<P("{"), Str("partial"), P(":")>>,
                     <<Str("ok"), P(":"), Lit("true"), P("}")>>) =>
              /\ Len(chunks') = Len(chunks) + 1
              /\ partial_data' = <<>>
              /\ ap' = "reading"]_vars

\* C20, amended: a record split over two lines is decoded once and leaves
\* the buffer empty, and the lines {"partial": and {"ok":true}} are such a
\* split.
C20_SplitRecordDecodedOnce ==
    [][/\ SplitRecordRead => OneRecordDecoded
       /\ ReadsAfter(<<P("{"), Str("partial"), P(":")>>,
                     <<P("{"), Str("ok"), P(":"), Lit("true"), P("}"),
                       P("}")>>) =>
              /\ chunks' =
                     Append(chunks,
                            JObj(<<"partial">>,
                                 <<JObj(<<"ok">>, <<JLit("true")>>)>>))
              /\ partial_data' = <<>>
              /\ ap' = "reading"]_vars

\* The child wrote {"partial": and then {"ok":true}}: one record was
\* decoded and the buffer is empty.
C20_Witness ==
    /\ provider = "claude-code"
    /\ ap = "reading"
    /\ nRead = 2
    /\ line_str = <<P("{"), Str("ok"), P(":"), Lit("true"), P("}"), P("}")>>
    /\ chunks = <<JObj(<<"partial">>, <<JObj(<<"ok">>, <<JLit("true")>>)>>)>>
    /\ partial_data = <<>>

---------------------------------------------------------------------------
\* Properties of the event sink

\* C26: for every invocation the turn loop of Task executes, exactly one
\* "tool" event and exactly one "tool_result" event are emitted, the "tool"
\* event first, also when the tool raises or its name is not registered.
C26_ToolEventsPaired ==
    [][(program = "Task" /\ nTools' = nTools + 1)
           => events' = events \o <<"tool", "tool_result">>]_vars

---------------------------------------------------------------------------
\* Properties of the batch loop of SimpleAgent

\* C27: two invocations with one tool name in one batch of
\* SimpleAgent.task_loop are processed independently. Every tool_use chunk
\* is appended to the batch, also when its name and so its id 'tool_<name>'
\* are already there; the loop prompts for, checks and dispatches the
\* invocation at the current position only; and a result entry is appended
\* for that position, after the entries of the positions before it, with
\* the id the two invocations share.
C27_SameNameIndependent ==
    [][program = "SimpleAgent" =>
          /\ nTools' = nTools + 1 =>
                 /\ Len(tool_uses') = Len(tool_uses) + 1
                 /\ Last(tool_uses').id = <<"tool_", Last(tool_uses').name>>
          /\ (pc = "for" /\ idx <= Len(tool_uses)) =>
                 /\ idx' = idx
                 /\ pc' = IF tool_uses[idx].name \in
                               {"read_file", "write_to_file", "search_files"}
                          THEN "confirm" ELSE "check"
          /\ (pc \in {"for", "confirm", "check", "plan_prompt"}
                  /\ tool_results' # tool_results) =>
                 /\ Len(tool_results') = idx
                 /\ SubSeq(tool_results', 1, idx - 1) = tool_results
                 /\ tool_results'[idx].tool_use_id = tool_uses[idx].id
                 /\ idx' = idx + 1
          /\ dispatched' # dispatched =>
                 /\ pc = "check"
                 /\ Len(dispatched') = Len(dispatched) + 1
                 /\ SubSeq(dispatched', 1, Len(dispatched)) = dispatched
                 /\ Last(dispatched').call = calls
                 /\ Last(dispatched').pos = idx
                 /\ Last(dispatched').name = tool_uses[idx].name]_vars

\* A batch of two read_file invocations, both confirmed and dispatched: the
\* first raised, the second returned, and the two results carry one id.
C27_Witness ==
    /\ program = "SimpleAgent"
    /\ Names(tool_uses) = <<"read_file", "read_file">>
    /\ tool_uses[1].id = tool_uses[2].id
    /\ Len(dispatched) = 2
    /\ dispatched[1] = Dispatch(calls, 1, "read_file", FALSE)
    /\ dispatched[2] = Dispatch(calls, 2, "read_file", TRUE)
    /\ tool_results =
           <<ToolResult(ToolId("read_file"), ErrorMsg(ToolException)),
             ToolResult(ToolId("read_file"), ToolOutput("read_file"))>>

\* C28: within an iteration of either turn loop no tool is dispatched until
\* the provider stream of that iteration has been consumed to its end and
\* the assistant turn of that iteration has been appended to the
\* conversation.
C28_DispatchAfterStream ==
    [][dispatched' # dispatched =>
           /\ pc # "streaming"
           /\ Len(conversation_history) = 2 * iteration
           /\ Last(conversation_history) =
                  Turn("assistant", assistant_message)]_vars

\* C29: in SimpleAgent.task_loop a tool outside attempt_completion,
\* ask_followup_question and plan_mode_respond is dispatched only after the
\* confirmation prompt of that same invocation was answered with empty
\* input: the loop comes to the mode check and dispatch of such an
\* invocation only from its prompt, by an empty answer, a dispatch happens
\* only there and is of the invocation prompted for, and so read_file,
\* write_to_file and search_files never run unconfirmed.
C29_ConfirmedBeforeDispatch ==
    [][program = "SimpleAgent" =>
          /\ (/\ pc' = "check"
              /\ tool_uses'[idx'].name \notin
                     {"attempt_completion", "ask_followup_question",
                      "plan_mode_respond"}) =>
                 /\ pc = "confirm"
                 /\ last_input' = <<>>
                 /\ idx' = idx
                 /\ tool_uses' = tool_uses
          /\ dispatched' # dispatched =>
                 /\ pc = "check"
                 /\ Last(dispatched').pos = idx
                 /\ Last(dispatched').name = tool_uses[idx].name
                 /\ Last(dispatched').name \in
                        {"read_file", "write_to_file", "search_files"} =>
                        last_input = <<>>]_vars

\* write_to_file ran in ACT mode after its prompt was answered with empty
\* input.
C29_Witness ==
    /\ program = "SimpleAgent"
    /\ mode = "ACT"
    /\ pc = "for"
    /\ last_input = <<>>
    /\ dispatched # <<>>
    /\ Last(dispatched) = Dispatch(calls, idx - 1, "write_to_file", TRUE)

\* C30: SimpleAgent.task_loop ends in "completed" only in ACT mode, by a
\* dispatch of attempt_completion that returned; once the loop runs, PLAN
\* becomes ACT only when the human enters 'switch' for a plan_mode_respond
\* invocation, so a loop started in PLAN completes only after that; and a
\* dispatch of attempt_completion that raises appends an 'Error: ...'
\* result and goes on with the batch.
C30_CompletedOnlyInAct ==
    [][program = "SimpleAgent" =>
          /\ pc' = "completed" => mode' = "ACT"
          /\ (pc' = "completed" /\ pc # "completed") =>
                 /\ pc = "check"
                 /\ mode = "ACT"
                 /\ dispatched' =
                        Append(dispatched,
                               [call |-> calls, pos |-> idx,
                                name |-> "attempt_completion", ok |-> TRUE])
          /\ (pc # "created" /\ mode = "PLAN" /\ mode' = "ACT") =>
                 /\ pc = "plan_prompt"
                 /\ tool_uses[idx].name = "plan_mode_respond"
                 /\ last_input' = <<"switch">>
          /\ (/\ dispatched' # dispatched
              /\ Last(dispatched').name = "attempt_completion"
              /\ ~Last(dispatched').ok) =>
                 /\ pc' = "for"
                 /\ idx' = idx + 1
                 /\ Len(tool_results') = Len(tool_results) + 1
                 /\ Last(tool_results').tool_use_id =
                        <<"tool_", "attempt_completion">>
                 /\ Last(tool_results').content[1] = "Error: "]_vars

\* The provider was called in PLAN mode with a batch of plan_mode_respond
\* and attempt_completion; the human entered 'switch' and attempt_completion
\* then completed the task.
C30_Witness ==
    /\ program = "SimpleAgent"
    /\ pc = "completed"
    /\ call_mode = "PLAN"
    /\ mode = "ACT"
    /\ Names(tool_uses) = <<"plan_mode_respond", "attempt_completion">>
    /\ tool_results =
           <<ToolResult(ToolId("plan_mode_respond"), SwitchedMsg)>>

---------------------------------------------------------------------------
\* Properties of the subprocess adapter

\* A decoded record that is an assistant message: an object of type
\* assistant whose message is an object with a list of content parts.
IsAssistantMessage(c) ==
    /\ c.k = "obj"
    /\ HasKey(c, "type")
    /\ Get(c, "type", PyNone) = JStr("assistant")
    /\ HasKey(c, "message")
    /\ Get(c, "message", PyNone).k = "obj"
    /\ HasKey(Get(c, "message", PyNone), "content")
    /\ Get(Get(c, "message", PyNone), "content", PyNone).k = "arr"

\* The content parts of kind text of an assistant message, in order.
TextPartsOf(c) ==
    LET parts == Get(Get(c, "message", PyNone), "content", PyNone).items
        IsText(i) == /\ parts[i].k = "obj"
                     /\ Get(parts[i], "type", PyNone) = JStr("text")
        RECURSIVE From(_)
        From(i) == IF i > Len(parts) THEN <<>>
                   ELSE (IF IsText(i) THEN <<parts[i]>> ELSE <<>>)
                        \o From(i + 1)
    IN  From(1)

\* C21: in the subprocess adapter only decoded records that are assistant
\* messages contribute text fragments, one per content part of kind text,
\* in order; a decoded record of any other shape adds no fragment and no
\* accumulated text and raises no error.
C21_OnlyAssistantRecordsContribute ==
    [][(provider = "claude-code" /\ chunks' # chunks) =>
           LET c == Last(chunks')
           IN  IF IsAssistantMessage(c)
               THEN /\ Len(yielded') = Len(yielded) + Len(TextPartsOf(c))
                    /\ \A i \in DOMAIN TextPartsOf(c) :
                           yielded'[Len(yielded) + i].type = "text"
               ELSE /\ yielded' = yielded
                    /\ full_text' = full_text
                    /\ ap' # "raised"]_vars

\* The call of stream_message has ended: the generator is exhausted, an
\* exception left it, or the consumer closed it.
StreamEnded == ap \in {"done", "raised", "cancelled"}

\* C22: in the subprocess adapter a temporary prompt file is created if and
\* only if the system prompt is longer than 65536 characters, and when
\* stream_message has ended, by the normal end of the sequence, by a
\* raised error or by a failure to spawn the child, the file no longer
\* exists.
C22_TempFileCreatedAndRemoved ==
    provider = "claude-code" =>
        /\ ap = "called" => temp_file = "none"
        /\ ap # "called" =>
               (temp_file # "none" <=> prompt_len > MAX_SYSTEM_PROMPT_LENGTH)
        /\ StreamEnded => temp_file # "exists"

\* A prompt one character over the threshold went to a temporary file, the
\* child could not be spawned, and the file was unlinked on the way out.
C22_Witness ==
    /\ provider = "claude-code"
    /\ prompt_len = MAX_SYSTEM_PROMPT_LENGTH + 1
    /\ ap = "raised"
    /\ child = "none"
    /\ temp_file = "unlinked"

\* The tool_use fragments among the fragments yielded so far.
ToolUseFragments == SelectSeq(yielded, LAMBDA f : f.type = "tool_use")

C24_NoOrphanedChild ==
    (provider = "claude-code" /\ StreamEnded) => child # "running"

---------------------------------------------------------------------------
\* Properties of the server

\* What the claim names of a Task: its conversation, its mode, its abort
\* flag and its pending user content.
TaskState(ts, t) ==
    <<ts[t].conversation_history, ts[t].mode, ts[t].abort,
      ts[t].user_content>>

\* C25: Tasks started concurrently share no state: every Task created
\* stays, and a step that changes anything of one Task leaves the
\* conversation, the mode, the abort flag and the pending user content of
\* every other Task as they were.
C25_TasksIsolated ==
    [][/\ Len(tasks') >= Len(tasks)
       /\ \A t \in DOMAIN tasks : \A u \in DOMAIN tasks \ {t} :
              tasks'[t] # tasks[t] => TaskState(tasks', u) = TaskState(tasks, u)
       /\ Len(tasks') > Len(tasks) =>
              \A u \in DOMAIN tasks : tasks'[u] = tasks[u]]_vars

\* Two Tasks interleaved: the first finished an iteration with a tool
\* result while the second, started meanwhile, is in its first provider
\* call, each with its own conversation.
C25_Witness ==
    /\ Len(tasks) = 2
    /\ tasks[1].pc = "top"
    /\ tasks[2].pc = "streaming"
    /\ Len(tasks[1].conversation_history) = 2
    /\ Len(tasks[2].conversation_history) = 1
    /\ tasks[1].user_message # tasks[2].user_message
    /\ tasks[1].user_content = JoinResults(tasks[1].tool_results)
    /\ tasks[1].tool_results # <<>>
    /\ tasks[2].user_content = InitialContent(tasks[2].user_message)

---------------------------------------------------------------------------
\* Further properties of the turn loops

\* C31: when human feedback ends a batch of SimpleAgent.task_loop, the
\* results of the invocations processed earlier in the batch are dropped:
\* the next user content is the wrapped feedback alone, without any
\* '[<id>] Result:' entry, whatever was executed before, and the user turn
\* of the next iteration is that content plus the environment context.
\* (A batch was ended by feedback when the loop is back at its top with
\* the batch's invocations and the feedback still in its variables.)
C31_FeedbackDropsResults ==
    [][/\ (program = "SimpleAgent" /\ pc = "confirm" /\ last_input' # <<>>)
             => /\ user_content' =
                       <<"<feedback>\n">> \o last_input' \o <<"\n</feedback>">>
                /\ \A i \in DOMAIN user_content' :
                       user_content'[i] # "] Result: "
                /\ dispatched' = dispatched
                /\ pc' = "top"
       /\ (/\ program = "SimpleAgent"
           /\ pc = "top"
           /\ pc' = "streaming"
           /\ tool_uses # <<>>
           /\ user_feedback # <<>>)
             => Last(conversation_history') =
                    [role |-> "user",
                     content |-> <<"<feedback>\n">> \o user_feedback
                                 \o <<"\n</feedback>", "\n\n", Context>>]]_vars

\* read_file was confirmed and executed, feedback was given at the prompt
\* of the second invocation, and the next user turn carries the feedback
\* only.
C31_Witness ==
    /\ program = "SimpleAgent"
    /\ pc = "streaming"
    /\ user_feedback # <<>>
    /\ Len(tool_uses) = 0
    /\ Len(tool_results) = 1
    /\ tool_results[1] = ToolResult(ToolId("read_file"), ToolOutput("read_file"))
    /\ dispatched # <<>>
    /\ Last(dispatched).ok
    /\ Last(conversation_history).content =
           FullUserContent(FeedbackBlock(user_feedback), Context)

\* Task.task_loop is in its loop or about to enter it.
TaskRunning(p) == p \in {"created", "top", "streaming"}

\* What C32 says of attempt_completion: a dispatch of it that returns
\* leaves the loop where it is and appends its result like any other, and
\* the end of the stream folds the results into the next user content.
CompletionFolded ==
    /\ (/\ dispatched' # dispatched
        /\ Last(dispatched').name = "attempt_completion"
        /\ Last(dispatched').ok)
          => /\ pc' = pc
             /\ tool_results' =
                    Append(tool_results,
                           [tool_use_id |-> <<"tool_", "attempt_completion">>,
                            content |-> ToolOutput("attempt_completion")])
    /\ (pc = "streaming" /\ pc' = "top" /\ tool_results # <<>>)
          => user_content' = JoinedInOrder(tool_results, 1)

C33_FailedIterationLeavesNoTrace ==
    (program = "SimpleAgent" /\ pc = "error") =>
        /\ Len(conversation_history) = 2 * calls - 1
        /\ Last(conversation_history).role = "user"
        /\ \A i \in DOMAIN conversation_history :
               conversation_history[i].role = "assistant" => i < 2 * calls - 1
        /\ \A i \in DOMAIN dispatched : dispatched[i].call # calls

\* The stream of the first iteration failed after a text fragment and a
\* tool_use fragment had been received.
C33_Witness ==
    /\ program = "SimpleAgent"
    /\ pc = "error"
    /\ calls = 1
    /\ assistant_message # <<>>
    /\ tool_uses # <<>>
    /\ Len(conversation_history) = 1
    /\ dispatched = <<>>

\* C34: every name of the tag parser's whitelist other than
\* plan_mode_respond is in the tool registry of the turn loop: no result
\* entry of an invocation with such a name is an 'Unknown tool' result.
C34_WhitelistRegistered ==
    \A i \in DOMAIN tool_results :
        tool_results[i].tool_use_id # <<"tool_", "plan_mode_respond">>
            => tool_results[i].content[1] # "Unknown tool: "

---------------------------------------------------------------------------
\* Further properties of the subprocess adapter

\* C35: the buffer of undecoded lines is emptied exactly when a decode
\* succeeds and otherwise only grows: a non-empty line is decoded together
\* with everything buffered before it; if that concatenation decodes, its
\* value is the one record taken and the buffer is left empty; if not, the
\* line is added to the buffer and no record is taken and nothing yielded.
C35_BufferEmptiedOnDecode ==
    [][(provider = "claude-code" /\ nRead' = nRead + 1 /\ line_str' # <<>>)
           => LET d == JsonLoads(partial_data \o line_str')
              IN  IF d.ok
                  THEN /\ partial_data' = <<>>
                       /\ chunks' = Append(chunks, d.val)
                  ELSE /\ partial_data' = partial_data \o line_str'
                       /\ chunks' = chunks
                       /\ yielded' = yielded]_vars

\* The number of entries of the sequence s whose name is n.
CountNamed(s, n) == Cardinality({i \in DOMAIN s : s[i].name = n})

\* The text v holds the whole block b, tags included.
HoldsBlock(v, b) ==
    \E a \in 1..Len(v) :
        /\ a + Len(b.content) + 1 <= Len(v)
        /\ v[a] = Open(b.name)
        /\ SubSeq(v, a + 1, a + Len(b.content)) = b.content
        /\ v[a + Len(b.content) + 1] = Close(b.name)

\* C37: when a call of either adapter has ended, the blocks nested inside
\* the body of a parameter of an extracted top-level block are kept as
\* that parameter's content and are not decomposed: the string value of
\* the parameter holds each of them whole, tags included; a name that
\* only nested blocks carry is no parameter of the invocation; and the
\* call yields, for every whitelisted name, as many tool_use fragments as
\* there are top-level blocks of that name, so that a whitelisted block
\* inside the body of another extracted block yields none of its own.
C37_NestedTagsKeptAsContent ==
    ap = "done" =>
        LET uses == YieldedToolUses(yielded)
            top == TopLevelBlocks(full_text, 1, 0)
            blocks == Whitelisted(top)
        IN  /\ \A n \in Whitelist : CountNamed(uses, n) = CountNamed(top, n)
            /\ Len(uses) = Len(blocks)
            /\ \A i \in DOMAIN uses :
                   LET children == TopLevelBlocks(blocks[i].content, 1, 0)
                   IN  \A j \in DOMAIN children :
                           LET nested == TopLevelBlocks(
                                             children[j].content, 1, 0)
                               value == uses[i].input[children[j].name]
                           IN  \A m \in DOMAIN nested :
                                   /\ nested[m].name \in DOMAIN uses[i].input
                                          => CountNamed(children,
                                                        nested[m].name) > 0
                                   /\ (/\ ~value.list
                                       /\ \A l \in DOMAIN children :
                                              children[l].name
                                                  = children[j].name
                                                  => l <= j)
                                          => HoldsBlock(value.text, nested[m])

\* A call ended on a write_to_file block whose content parameter holds a
\* read_file block with two path tags: the only tool_use fragment is for
\* write_to_file, its only parameter is content, and the content is the
\* read_file block, tags included.
C37_Witness ==
    /\ ap = "done"
    /\ full_text = PieceText("open write") \o PieceText("read twice")
                       \o PieceText("close write")
    /\ Len(YieldedToolUses(yielded)) = 1
    /\ YieldedToolUses(yielded)[1].name = "write_to_file"
    /\ DOMAIN YieldedToolUses(yielded)[1].input = {"content"}
    /\ YieldedToolUses(yielded)[1].input["content"]
           = PyStr(PieceText("read twice"))

---------------------------------------------------------------------------
\* Properties of a failing event sink

\* What execute_tool returns for the tool_use fragment of the given name.
ResultOf(name, raises) ==
    IF name \notin TaskTools THEN UnknownToolMsg(name)
    ELSE IF raises THEN ErrorMsg(ToolException)
    ELSE ToolOutput(name)

\* C38: a step of Task taken while its websocket is closed, so that every
\* send of the step raises, delivers no event and changes the loop as the
\* step does when the sends succeed: Task.start goes on to the loop with
\* the task as the user content; a text fragment is appended to the
\* assistant message; a tool_use fragment is dispatched if its tool is
\* registered and leaves its result; and in each case the control stays
\* where the successful step leaves it and the conversation is untouched.
C38_SendFailureIgnored ==
    [][(program = "Task" /\ WebSocket \notin connections)
           => /\ events' = events
              /\ (pc = "created" /\ pc' # pc)
                     => /\ pc' = "top"
                        /\ user_content' = InitialContent(TaskText)
                        /\ UNCHANGED <<conversation_history, dispatched,
                                       assistant_message, tool_results>>
              /\ nTexts' = nTexts + 1
                     => /\ pc' = pc
                        /\ assistant_message'
                               = Append(assistant_message, TextChunk)
                        /\ UNCHANGED <<conversation_history, dispatched,
                                       user_content, tool_results>>
              /\ nTools' = nTools + 1
                     => /\ pc' = pc
                        /\ \E name \in ValidTools, raises \in BOOLEAN :
                               /\ tool_results'
                                      = Append(tool_results,
                                               ToolResult(
                                                   ToolId(name),
                                                   ResultOf(name, raises)))
                               /\ dispatched'
                                      = IF name \in TaskTools
                                        THEN Append(
                                                 dispatched,
                                                 Dispatch(
                                                     calls,
                                                     Len(tool_results) + 1,
                                                     name, ~raises))
                                        ELSE dispatched
                        /\ UNCHANGED <<conversation_history, user_content,
                                       assistant_message>>]_vars

\* The client disconnected right after the Task started: only the status
\* event was delivered, and the loop has streamed text, run a tool,
\* recorded the turn and begun its second iteration.
C38_Witness ==
    /\ program = "Task"
    /\ WebSocket \notin connections
    /\ events = <<"status">>
    /\ Len(conversation_history) = 3
    /\ Len(dispatched) = 1
    /\ dispatched[1].ok
    /\ conversation_history[2].content # <<>>

---------------------------------------------------------------------------
\* Properties of the subprocess adapter with its child

\* C36: for a child that writes a finite amount of data to stdout and to
\* stderr and then exits, stream_message of the subprocess adapter
\* eventually ends or raises, whatever the two amounts are.
C36_StreamTerminates == <>(ap \in {"done", "raised"})

\* The variables the adapter sets for the child: the output-token cap and
\* the two telemetry opt-outs.
Overrides ==
    [n \in {"CLAUDE_CODE_MAX_OUTPUT_TOKENS",
            "CLAUDE_CODE_DISABLE_NONESSENTIAL_TRAFFIC",
            "DISABLE_NON_ESSENTIAL_MODEL_CALLS"} |->
        IF n = "CLAUDE_CODE_MAX_OUTPUT_TOKENS" THEN "32000" ELSE "1"]

\* C39: whatever the caller's environment is, the environment the child is
\* spawned with has the caller's variables and the three the adapter sets,
\* without ANTHROPIC_API_KEY; the three have the adapter's values and every
\* other variable has the caller's; and the caller's environment is after
\* the spawn what it was before.
C39_ChildEnvironment ==
    [][(provider = "claude-code" /\ ap = "called" /\ ap' = "reading")
           => /\ DOMAIN env' = (DOMAIN environ \cup DOMAIN Overrides)
                                   \ {"ANTHROPIC_API_KEY"}
              /\ \A n \in DOMAIN env' :
                     env'[n] = IF n \in DOMAIN Overrides THEN Overrides[n]
                               ELSE environ[n]
              /\ environ' = environ]_vars

\* The child was spawned by a caller whose environment holds an API key
\* and an output-token cap of its own: the child has the adapter's cap and
\* no key, and the caller still has both.
C39_Witness ==
    /\ provider = "claude-code"
    /\ child = "running"
    /\ environ = [n \in EnvNames |-> CallerValue(n)]
    /\ "ANTHROPIC_API_KEY" \notin DOMAIN env
    /\ env["CLAUDE_CODE_MAX_OUTPUT_TOKENS"] = "32000"
    /\ env["PATH"] = environ["PATH"]

===========================================================================
